---- MODULE Spec2Model ----
(***************************************************************************)
(* A model of the avarus turtle server (server/src): the chunked voxel     *)
(* World store (blocks.rs), the ChunkedTask work tracker (mine.rs) and the *)
(* per-turtle session protocol (turtle.rs).                                *)
(*                                                                         *)
(* Rust's Option<T> is modelled as a sequence: None is << >> and Some(v)   *)
(* is << v >>.  A Vec3 is a triple << x, y, z >>.                          *)
(***************************************************************************)
EXTENDS Integers, Sequences, FiniteSets, TLC

VARIABLES
    world,      \* blocks.rs World: [index, data, last]
    written,    \* history: cell -> name of the most recent World::set on it
    task,       \* mine.rs ChunkedTask: [confirmed, max, head, canceled]
    guard,      \* worker -> Option<ChunkedTaskGuard [chunk, complete]> it holds
    pc,         \* worker -> the step of next_chunk / finish / cancel it is at
    loc,        \* worker -> the values its call has loaded (minimum, head, curr, max)
    issued,     \* history: indices next_chunk has returned
    finished,   \* history: indices whose guard ended with finish()
    cancelled,  \* history: indices whose guard ended without finish()
    lastCall,   \* history: the ChunkedTask call that returned last
    turtle,     \* turtle.rs Turtle: fuel, queued_movement, position, pending_update, callback
    inbox,      \* the mpsc channel (capacity 1) of (command, reply sender) messages
    senders,    \* execute calls blocked in sender.send(), oldest first
    sess,       \* "idle", or "recv" while process_turtle_update waits on the inbox
    robot,      \* the turtle in the world: pos, dir, fuel, ret of its last command
    caller,     \* caller -> its execute call: pc, tok, cmd, reply
    commander,  \* TurtleCommander: pos, fuel, inventory with its lock (and the inventory() call under way)
    ncalls,     \* history: number of execute calls made (the k-th call has token k)
    dispatched, \* history: tokens of the commands returned to the robot, in order
    delivered,  \* history: tokens whose completion the session has sent or discarded
    reported,   \* history: token -> the ret the robot produced running that command
    answer,     \* history: the command the last update was answered with (an Option)
    asked,      \* history: the robot id of that update (an Option)
    nav,        \* a goto / goto_adjacent call: its arguments, locals and result
    depots,     \* depot.rs Depots: list, locks, permits, guard (and the add calls under way)
    docker,     \* robot -> its nearest / dock call: pc, pos, i, best, free, depot, how
    routed,     \* the last route / route_facing call: its arguments and what it returned
    sched,      \* tasks.rs Scheduler: turtles, tasks, shutdown (and histories)
    cycle,      \* history: what the Scheduler::poll just made did
    quarry,     \* mine.rs Quarry: pos, size, miners (and how each robot's run ended)
    filling,    \* mine.rs fill: the box, the index reached, the cell it gave, the cells given
    calls,      \* history: the ChunkedTask calls that returned, in the order of their returns
    build       \* construct.rs BuildSimple: height, progress, miners (and the run future, histories)

worldVars == << world, written >>
taskVars == << task, guard, pc, loc, issued, finished, cancelled, lastCall, calls >>
sessVars == << turtle, inbox, senders, sess, robot, caller, commander,
              ncalls, dispatched, delivered, reported, answer, asked >>
depVars == << depots, docker >>
\* the variables of the other components
schedVars == << sched, cycle >>
exceptWorld == << taskVars, sessVars, nav, depVars, routed, schedVars, quarry, filling, build >>
exceptTask == << worldVars, sessVars, nav, depVars, routed, schedVars, quarry, filling, build >>
exceptSess == << written, taskVars, nav, depVars, routed, schedVars, quarry, filling, build >>
exceptNav == << worldVars, taskVars, sessVars, depVars, routed, schedVars, quarry, filling, build >>
exceptDepots == << worldVars, taskVars, sessVars, nav, routed, schedVars, quarry, filling, build >>
exceptRouted == << worldVars, taskVars, sessVars, nav, depVars, schedVars, quarry, filling, build >>
exceptSched == << worldVars, taskVars, sessVars, nav, depVars, routed, quarry, filling, build >>
exceptQuarry == << worldVars, loc, lastCall, calls, sessVars, nav, depVars, routed, filling, build >>
exceptBuild == << worldVars, taskVars, sessVars, nav, depVars, routed, schedVars, quarry, filling >>
exceptFilling == << worldVars, taskVars, sessVars, nav, depVars, routed, schedVars, quarry, build >>
vars == << world, written, task, guard, pc, loc, issued, finished, cancelled, lastCall,
          turtle, inbox, senders, sess, robot, caller, commander,
          ncalls, dispatched, delivered, reported, answer, asked, nav, depots, docker, routed, sched, cycle, quarry, filling, calls, build >>

\* ------------------------------------------------------------------ Option
None == << >>
Some(v) == << v >>
IsSome(o) == o /= << >>
Unwrap(o) == o[1]

\* ------------------------------------------------------------------ Vec3
Vec3(x, y, z) == << x, y, z >>
VAdd(a, b) == << a[1] + b[1], a[2] + b[2], a[3] + b[3] >>
VSub(a, b) == << a[1] - b[1], a[2] - b[2], a[3] - b[3] >>
VScale(a, k) == << a[1] * k, a[2] * k, a[3] * k >>
VNeg(a) == << 0 - a[1], 0 - a[2], 0 - a[3] >>
VZero == << 0, 0, 0 >>
VY == << 0, 1, 0 >>
component_mul(a, b) == << a[1] * b[1], a[2] * b[2], a[3] * b[3] >>
Abs(n) == IF n < 0 THEN 0 - n ELSE n
AbsSum(a) == Abs(a[1]) + Abs(a[2]) + Abs(a[3])

\* ------------------------------------------------------------------ bounds
\* largest coordinate magnitude of the cells the World specification sets
MaxCoord == 5
\* largest ChunkedTask.max (number of chunk indices)
MaxChunks == 3
\* largest ChunkedTask.max when the calls are interleaved step by step
StepChunks == 2
\* next_chunk calls started once head has passed max, step by step
StepOver == 0
\* number of workers that call next_chunk / finish / cancel
NumWorkers == 2
\* next_chunk calls allowed once head has passed max (head grows on each)
MaxOver == 1
\* number of tasks that call execute on the one commander
NumCallers == 2
\* execute calls made in a run
MaxCalls == 3
\* fuel of the robot at registration (one per cell moved, never refuelled)
MaxFuel == 2
\* execute calls of the single task of the movement specification
MaxMoves == 3
\* unregistered robot ids that post updates: turtles.len() .. turtles.len() + MaxIdOver
MaxIdOver == 1
\* goto: the cells are (0,0,0) .. (GotoMax,0,0); a route has at most MaxRoute steps
GotoMax == 1
MaxRoute == 2
\* robots calling nearest / dock
NumRobots == 3
\* depots there can be: add is not called once there are this many
MaxDepots == 3
\* a route around a line of blocks has at most MaxDetour steps
MaxDetour == 6
\* the sides of the boxes fill walks through
MaxSide == 3
\* robots registered with the scheduler
NumTurtles == 2
\* tasks added to the scheduler
MaxTasks == 2
\* shutdown() calls
MaxShutdowns == 2
\* robots that connect while a quarry is the task (at most NumWorkers)
NumMiners == 1
\* polls of a quarry are made while its miners counter is below this
MaxPolls == 2
\* the ChunkedTask calls whose order is kept
MaxLog == 6
\* inventory() calls of the task
MaxScans == 2
\* the greatest height of a build
MaxHeight == 3
\* layers a build takes again after a failure
MaxRedo == 2

\* ------------------------------------------------------------------ blocks.rs
CHUNK_SIZE == 4
CHUNK_VEC == << CHUNK_SIZE, CHUNK_SIZE, CHUNK_SIZE >>

\* i32::div_floor(n, CHUNK_SIZE) on every component (\div rounds down)
chunk_coords(pos) ==
    << pos[1] \div CHUNK_SIZE, pos[2] \div CHUNK_SIZE, pos[3] \div CHUNK_SIZE >>

LocalCoords == (0 .. CHUNK_SIZE - 1) \X (0 .. CHUNK_SIZE - 1) \X (0 .. CHUNK_SIZE - 1)

\* Chunk::new: every entry of the array is None.  The array is kept as a
\* function on the local coordinates that hold Some(name); chunk_data reads it
Chunk_new(pos) == [pos |-> pos, data |-> << >>]

\* self.data[local.x][local.y][local.z]
chunk_data(chunk, local) ==
    IF local \in DOMAIN chunk.data THEN Some(chunk.data[local]) ELSE None

\* Chunk::contains: local >= zeros && local < CHUNK_VEC (component-wise)
Chunk_contains(chunk, pos) ==
    LET local == VSub(pos, component_mul(chunk.pos, CHUNK_VEC))
    IN  /\ \A i \in 1 .. 3 : local[i] >= 0
        /\ \A i \in 1 .. 3 : local[i] < CHUNK_VEC[i]

\* Chunk::set; the Err("out of bounds") outcome is the value "Err"
Chunk_set(chunk, block) ==
    IF ~Chunk_contains(chunk, block.pos)
    THEN "Err"
    ELSE LET local == VSub(block.pos, component_mul(chunk.pos, CHUNK_VEC))
         IN  [chunk EXCEPT !.data = [l \in DOMAIN chunk.data \cup {local} |->
                                        IF l = local THEN block.name ELSE chunk.data[l]]]

\* Chunk::get, as Option<name> (the Block returned carries the queried pos)
Chunk_get(chunk, pos) ==
    LET local == VSub(pos, component_mul(chunk.pos, CHUNK_VEC))
    IN  IF ~Chunk_contains(chunk, pos) THEN None ELSE chunk_data(chunk, local)

\* World::new
World_new == [index |-> << >>, data |-> << >>, last |-> None]

\* HashMap::get on World.index
index_get(w, cc) == IF cc \in DOMAIN w.index THEN Some(w.index[cc]) ELSE None

\* World::get_chunk: the "last" hint is tested with the chunk coordinates of
\* the queried block, then the index is consulted
World_get_chunk(w, pos) ==
    LET block == chunk_coords(pos)
    IN  IF IsSome(w.last) /\ Chunk_contains(w.data[Unwrap(w.last)], block)
        THEN Some(w.data[Unwrap(w.last)])
        ELSE LET i == index_get(w, block)
             IN  IF IsSome(i) THEN Some(w.data[Unwrap(i)]) ELSE None

\* World::get
World_get(w, pos) ==
    LET chunk == World_get_chunk(w, pos)
    IN  IF IsSome(chunk) THEN Chunk_get(Unwrap(chunk), pos) ELSE None

\* World::set
World_set(w, block) ==
    LET cc == chunk_coords(block.pos)
        hinted == IF IsSome(w.last) /\ Chunk_contains(w.data[Unwrap(w.last)], block.pos)
                  THEN w.last ELSE None
        chunk == IF IsSome(hinted) THEN hinted ELSE index_get(w, cc)
    IN  IF IsSome(chunk)
        THEN [w EXCEPT !.last = chunk,
                       !.data[Unwrap(chunk)] = Chunk_set(w.data[Unwrap(chunk)], block)]
        ELSE [w EXCEPT !.data = Append(w.data, Chunk_set(Chunk_new(cc), block)),
                       !.index = [c \in DOMAIN w.index \cup {cc} |->
                                     IF c = cc THEN Len(w.data) + 1 ELSE w.index[c]]]

\* ------------------------------------------------------------------ mine.rs: ChunkedTask
Workers == 1 .. NumWorkers

Max2(a, b) == IF a >= b THEN a ELSE b

\* ChunkedTask::new(parts): Default (confirmed 0, head 0, empty channel), max = parts
ChunkedTask_new(parts) == [confirmed |-> 0, max |-> parts, head |-> 0, canceled |-> << >>]

\* a ChunkedTask read back by Deserialize: confirmed and max as saved, head
\* skipped (0), a new channel
deserialized(parts, confirmed) == [ChunkedTask_new(parts) EXCEPT !.confirmed = confirmed]

\* ChunkedTask::done
done(t) == LET backstop == t.confirmed IN backstop + 1 >= t.max

\* ChunkedTask::allocated
allocated(t) == LET front == t.head IN front + 1 >= t.max /\ t.canceled = << >>

\* (mutant: the cancel queue is never read)
try_recv_never(t) == None

\* cancelled.try_recv().ok(): the oldest queued index, if any
try_recv(t) == IF t.canceled = << >> THEN None ELSE Some(Head(t.canceled))

\* the channel after try_recv took its message
after_recv(t) == [t EXCEPT !.canceled = Tail(@)]

\* (mutant: a plain store in place of the compare-exchange)
cas_head_stores(t, head, minimum) ==
    [ok |-> TRUE, task |-> [t EXCEPT !.head = Max2(minimum, head)]]

\* self.head.compare_exchange(head, minimum.max(head)): [ok, task]
cas_head(t, head, minimum) ==
    IF t.head = head
    THEN [ok |-> TRUE, task |-> [t EXCEPT !.head = Max2(minimum, head)]]
    ELSE [ok |-> FALSE, task |-> t]

\* self.head.fetch_add(1): [old, task]
fetch_add_head(t) == [old |-> t.head, task |-> [t EXCEPT !.head = @ + 1]]

\* (mutant: the bound check admits head = max)
chunk_or_none_inclusive(t, head) == IF head <= t.max THEN Some(head) ELSE None

\* the result of next_chunk from the value fetch_add returned
chunk_or_none(t, head) == IF head < t.max THEN Some(head) ELSE None

\* ChunkedTask::next_chunk run without interruption: [task, ret]
next_chunk(t) ==
    IF IsSome(try_recv(t))
    THEN [task |-> after_recv(t), ret |-> try_recv(t)]
    ELSE LET minimum == t.confirmed
             head == t.head
             synced == cas_head(t, head, minimum).task
             added == fetch_add_head(synced)
         IN  [task |-> added.task, ret |-> chunk_or_none(t, added.old)]

\* self.confirmed.compare_exchange(curr, curr.max(chunk)): [ok, task]
cas_confirmed(t, curr, chunk) ==
    IF t.confirmed = curr
    THEN [ok |-> TRUE, task |-> [t EXCEPT !.confirmed = Max2(curr, chunk)]]
    ELSE [ok |-> FALSE, task |-> t]

\* ChunkedTask::mark_done run without interruption
mark_done(t, chunk) ==
    IF Len(t.canceled) = 0
    THEN cas_confirmed(t, t.confirmed, chunk).task
    ELSE t

\* canceled.0.send(chunk) when chunk < max (the head loaded), else only an error log
send_if_below(t, chunk, max) ==
    IF chunk < max THEN [t EXCEPT !.canceled = Append(@, chunk)] ELSE t

\* ChunkedTask::cancel run without interruption
cancel(t, chunk) == LET max == t.head IN send_if_below(t, chunk, max)

\* ChunkedTaskGuard::with_task
with_task(chunk) == [chunk |-> chunk, complete |-> FALSE]

\* (mutant: Drop does not look at the complete flag)
drop_cancels_always(g) == TRUE

\* whether Drop for ChunkedTaskGuard calls parent.cancel
drop_cancels(g) == ~g.complete

\* impl Drop for ChunkedTaskGuard
Guard_drop(t, g) == IF drop_cancels(g) THEN cancel(t, g.chunk) ELSE t

\* ChunkedTaskGuard::finish: mark_done, complete = true, then self is dropped
Guard_finish(t, g) == Guard_drop(mark_done(t, g.chunk), [g EXCEPT !.complete = TRUE])

\* ChunkedTaskGuard::cancel: drop(self)
Guard_cancel(t, g) == Guard_drop(t, g)

\* the history of calls c with one more call that returned
record(c, call) == IF c.on THEN [c EXCEPT !.log = Append(@, call)] ELSE c

\* one call of the history made without interruption on t: [task, ret]
whole_call(t, call) ==
    CASE call.op = "next_chunk" -> next_chunk(t)
      [] call.op = "finish" ->
            [task |-> Guard_finish(t, with_task(Unwrap(call.chunk))), ret |-> call.chunk]
      [] OTHER ->
            [task |-> Guard_drop(t, with_task(Unwrap(call.chunk))), ret |-> call.chunk]

RECURSIVE sequential(_, _, _)
\* the tasks that the calls left in rest (worker -> its calls, in its order)
\* end in when they are made one at a time from t in some order, each
\* returning what the history says it returned
sequential(t, rest, workers) ==
    IF \A w \in workers : rest[w] = << >>
    THEN {t}
    ELSE UNION {LET r == whole_call(t, Head(rest[w]))
                IN  IF r.ret = Head(rest[w]).chunk
                    THEN sequential(r.task, [rest EXCEPT ![w] = Tail(@)], workers)
                    ELSE {}
                : w \in {v \in workers : rest[v] /= << >>}}

\* ------------------------------------------------------------------ blocks.rs: Direction
Directions == {"North", "South", "East", "West"}

\* Direction::left
left(d) ==
    CASE d = "North" -> "West" [] d = "South" -> "East"
      [] d = "East" -> "North" [] d = "West" -> "South"

\* Direction::right
right(d) ==
    CASE d = "North" -> "East" [] d = "South" -> "West"
      [] d = "East" -> "South" [] d = "West" -> "North"

\* Direction::unit
unit(d) ==
    CASE d = "North" -> << 0, 0, -1 >> [] d = "South" -> << 0, 0, 1 >>
      [] d = "East" -> << 1, 0, 0 >> [] d = "West" -> << -1, 0, 0 >>

\* Position::new
Position(pos, dir) == [pos |-> pos, dir |-> dir]

\* Position::difference: the command that maps self to the adjacent position to
Position_difference(self, to) ==
    IF self.pos = to.pos
    THEN IF to.dir = left(self.dir) THEN Some([op |-> "Left", n |-> 0])
         ELSE IF to.dir = right(self.dir) THEN Some([op |-> "Right", n |-> 0])
         ELSE None
    ELSE IF to.dir = self.dir
    THEN IF to.pos = VAdd(self.pos, unit(self.dir)) THEN Some([op |-> "Forward", n |-> 1])
         ELSE IF to.pos = VSub(self.pos, unit(self.dir)) THEN Some([op |-> "Backward", n |-> 1])
         ELSE IF to.pos = VAdd(self.pos, VY) THEN Some([op |-> "Up", n |-> 1])
         ELSE IF to.pos = VSub(self.pos, VY) THEN Some([op |-> "Down", n |-> 1])
         ELSE None
    ELSE None

\* Position::dig: the command that digs the cell to from self
Position_dig(self, to) ==
    IF AbsSum(VSub(self.pos, to)) /= 1 THEN None
    ELSE CASE self.pos[2] - to[2] = 0 -> Some([op |-> "Dig", n |-> 0])
           [] self.pos[2] - to[2] = 1 -> Some([op |-> "DigDown", n |-> 0])
           [] self.pos[2] - to[2] = -1 -> Some([op |-> "DigUp", n |-> 0])
           [] OTHER -> None

\* ------------------------------------------------------------------ turtle.rs
IDLE_TIME == 3

\* TurtleCommand values: [op, n]; n is the count or slot, 0 for the commands without one
Command(op, n) == [op |-> op, n |-> n]

\* TurtleCommand::unit
Command_unit(cmd, direction) ==
    LET dir == unit(direction)
    IN  CASE cmd.op = "Forward" -> dir
          [] cmd.op = "Backward" -> VNeg(dir)
          [] cmd.op = "Up" -> VY
          [] cmd.op = "Down" -> VNeg(VY)
          [] OTHER -> VZero

\* Turtle::with_channel: the turtle registered by create_turtle
Turtle_with_channel(position, fuel) ==
    [fuel |-> fuel, queued_movement |-> VZero, position |-> position,
     pending_update |-> TRUE, callback |-> None]

\* no inventory() call is running
NoScan == [pc |-> "idle", i |-> 1, slots |-> << >>, got |-> "None", from |-> 0,
           made |-> 0, probes |-> 0, ret |-> None]

\* TurtleCommander::new: copies of the turtle's position and fuel, no inventory;
\* lock is the holder of the write lock of the inventory RwLock (0: free), scan
\* the inventory() call under way (histories: from, the execute calls made when
\* it started; made, the calls that returned; probes, the probes that returned)
TurtleCommander_new(t) ==
    [pos |-> t.position, fuel |-> t.fuel, inventory |-> None, lock |-> 0, scan |-> NoScan]

\* (mutant: a fuel drop counts as one cell, whatever its size)
attribute_fuel_one_cell(t, update) ==
    LET moved == IF t.fuel > update.fuel
                 THEN [t EXCEPT !.position.pos = VAdd(@, t.queued_movement),
                                !.queued_movement = VZero]
                 ELSE t
    IN  [moved EXCEPT !.fuel = update.fuel]

\* process_turtle_update, if turtle.fuel > update.fuel { .. } turtle.fuel = update.fuel
attribute_fuel(t, update) ==
    LET moved == IF t.fuel > update.fuel
                 THEN LET diff == t.fuel - update.fuel
                          delta == VScale(t.queued_movement, diff)
                      IN  [t EXCEPT !.position.pos = VAdd(@, delta),
                                    !.queued_movement = VZero]
                 ELSE t
    IN  [moved EXCEPT !.fuel = update.fuel]

\* process_turtle_update, the three world.set calls: above, ahead, below
observe(w, t, update) ==
    LET above == [name |-> update.above, pos |-> VAdd(t.position.pos, VY)]
        ahead == [name |-> update.ahead, pos |-> VAdd(t.position.pos, unit(t.position.dir))]
        below == [name |-> update.below, pos |-> VSub(t.position.pos, VY)]
    IN  World_set(World_set(World_set(w, above), ahead), below)

\* TurtleInfo::from_update
TurtleInfo_from_update(update, pos) ==
    [pos |-> pos, fuel |-> update.fuel, ahead |-> update.ahead,
     above |-> update.above, below |-> update.below, ret |-> update.ret]

\* (mutant: the pending completion is dropped with the flag)
clear_pending_drops_callback(t) == [t EXCEPT !.pending_update = FALSE, !.callback = None]

\* process_turtle_update, the branch taken when pending_update is set
clear_pending(t) == [t EXCEPT !.pending_update = FALSE]

\* (mutant: the pending completion is left alone)
take_callback_skipped(t) == [turtle |-> t, send |-> None]

\* process_turtle_update, if let Some(send) = turtle.callback.take(): the turtle
\* without its callback, and the completion to send info on
take_callback(t) == [turtle |-> [t EXCEPT !.callback = None], send |-> t.callback]

\* (mutant: the reply sender of the received command is not kept)
accept_command_drops_reply(t, msg) ==
    LET dir == CASE msg.cmd.op = "Left" -> left(t.position.dir)
                 [] msg.cmd.op = "Right" -> right(t.position.dir)
                 [] OTHER -> t.position.dir
    IN  [t EXCEPT !.position.dir = dir,
                  !.queued_movement = Command_unit(msg.cmd, dir)]

\* process_turtle_update, the command received: callback = Some(ret), the facing
\* turned for Left / Right, queued_movement = cmd.unit(facing)
accept_command(t, msg) ==
    LET dir == CASE msg.cmd.op = "Left" -> left(t.position.dir)
                 [] msg.cmd.op = "Right" -> right(t.position.dir)
                 [] OTHER -> t.position.dir
    IN  [t EXCEPT !.callback = Some(msg.tok),
                  !.position.dir = dir,
                  !.queued_movement = Command_unit(msg.cmd, dir)]

\* mpsc::channel(1)
INBOX_CAPACITY == 1

\* create_turtle: the ids handed out are 0 .. turtles.len() - 1; one turtle is registered
Registered == {0}
TURTLE_ID == CHOOSE id \in Registered : TRUE

\* command, if id as usize > state_guard.turtles.len()
out_of_range(id, len) == id > len

\* command for an id that state.turtles.get(id) does not find: Update when the
\* handler's own test rejects it, else process_turtle_update's Poweroff
command_unregistered(id, len) ==
    IF out_of_range(id, len) THEN Command("Update", 0) ELSE Command("Poweroff", 0)

\* (mutant: a new sender takes a free slot ahead of the blocked ones)
has_permit_barging(box, waiting) == Len(box) < INBOX_CAPACITY

\* whether sender.send() completes at once: a free slot that no earlier sender waits for
has_permit(box, waiting) == Len(box) < INBOX_CAPACITY /\ waiting = << >>

\* the blocked sender that gets the slot a recv has freed: the oldest
next_sender(waiting) == Head(waiting)

\* execute, whether the command is one that leaves the inventory alone
keeps_inventory(cmd) ==
    cmd.op \in {"Wait", "Forward", "Backward", "Up", "Down", "Left", "Right"}

\* execute, whether its reply makes it write None to the inventory
invalidates(cmd, resp) == resp.ret = "Success" /\ ~keeps_inventory(cmd)

\* (mutant: the inventory is invalidated whatever the response)
execute_store_any_response(cm, cmd, resp) ==
    [cm EXCEPT !.inventory = IF ~keeps_inventory(cmd) THEN None ELSE @,
               !.pos = resp.pos,
               !.fuel = resp.fuel]

\* execute, after the reply: inventory invalidated on Success of the other
\* commands, pos and fuel stored
execute_store(cm, cmd, resp) ==
    [cm EXCEPT !.inventory = IF invalidates(cmd, resp) THEN None ELSE @,
               !.pos = resp.pos,
               !.fuel = resp.fuel]

\* the slots inventory() probes
SLOTS == 16

\* inventory(), the write lock taken: the snapshot is returned if there is one,
\* else the scan starts
inventory_enter(cm, c, ncalls_now) ==
    IF IsSome(cm.inventory)
    THEN [cm EXCEPT !.scan = [NoScan EXCEPT !.made = cm.scan.made + 1, !.ret = cm.inventory,
                                            !.from = ncalls_now, !.probes = cm.scan.probes]]
    ELSE [cm EXCEPT !.lock = c,
                    !.scan = [NoScan EXCEPT !.pc = "probing", !.made = cm.scan.made,
                                            !.from = ncalls_now, !.probes = cm.scan.probes]]

\* inventory(), the match on the ret of a probe: Item(item) pushes Some(item),
\* None and every other response push None
scan_entry(ret) == IF ret = "Item" THEN Some("item") ELSE None

\* inventory(), one turn of the loop after its execute returned; after the last
\* one the scan is stored and returned and the write lock dropped
scan_push(cm) ==
    LET slots == Append(cm.scan.slots, scan_entry(cm.scan.got))
    IN  IF cm.scan.i = SLOTS
        THEN [cm EXCEPT !.inventory = Some(slots), !.lock = 0,
                        !.scan = [NoScan EXCEPT !.made = cm.scan.made + 1, !.ret = Some(slots),
                                                !.from = cm.scan.from, !.probes = cm.scan.probes]]
        ELSE [cm EXCEPT !.scan.slots = slots, !.scan.i = @ + 1, !.scan.pc = "probing"]

\* ------------------------------------------------------------------ turtle.rs: goto
RETRIES == 42

\* the positions of the goto specification: a row of cells, every facing
GotoCells == {<< x, 0, 0 >> : x \in 0 .. GotoMax}
GotoPositions == {Position(c, d) : c \in GotoCells, d \in Directions}

\* goto_adjacent, the test at the head of its loop (and route_facing's goal):
\* cell is ahead of, above or below p
faces(p, cell) ==
    \/ cell = VAdd(unit(p.dir), p.pos)
    \/ cell = VAdd(p.pos, VY)
    \/ cell = VSub(p.pos, VY)

\* whether the call has arrived: recent == pos for goto, faces for goto_adjacent
arrived(n) == IF n.mode = "goto" THEN n.recent = n.target ELSE faces(n.recent, n.target)

\* next: the positions the pathfinder expands p to, a turn left or right or
\* the cell ahead, above or below (the cell behind is not expanded); a cell
\* outside GotoCells is one whose block has no difficulty
Adjacent(p) ==
    {Position(p.pos, left(p.dir)), Position(p.pos, right(p.dir))} \cup
    {q \in {Position(VAdd(p.pos, unit(p.dir)), p.dir),
            Position(VAdd(p.pos, VY), p.dir),
            Position(VSub(p.pos, VY), p.dir)} : q.pos \in GotoCells}

RECURSIVE PathsFrom(_, _)
\* the paths of at most k steps that extend path without repeating a position
PathsFrom(path, k) ==
    {path} \cup
    IF k = 0 THEN {}
    ELSE UNION {PathsFrom(Append(path, q), k - 1) :
                  q \in {a \in Adjacent(path[Len(path)]) :
                            \A i \in DOMAIN path : path[i] /= a}}

\* route / route_facing: None (no path, or the search timed out), or a path of
\* adjacent positions from the start to the first position that meets the goal;
\* which path is the cheapest depends on the blocks stored, so any is allowed
route_results(n) ==
    {None} \cup
    {Some(r) : r \in {path \in PathsFrom(<< n.recent >>, MaxRoute) :
                        \A i \in DOMAIN path :
                            arrived([n EXCEPT !.recent = path[i]]) <=> i = Len(path)}}

\* the position the robot is at after cmd, when the command succeeds
Command_apply(p, cmd) ==
    CASE cmd.op = "Left" -> Position(p.pos, left(p.dir))
      [] cmd.op = "Right" -> Position(p.pos, right(p.dir))
      [] OTHER -> Position(VAdd(p.pos, VScale(Command_unit(cmd, p.dir), cmd.n)), p.dir)

\* execute(cmd) with the turtle at p: the TurtleInfo of a success, or of a
\* failure that left the turtle where it was
execute_results(p, cmd) ==
    {[pos |-> Command_apply(p, cmd), ret |-> "Success"], [pos |-> p, ret |-> "Failure"]}

\* no goto call
NoGoto == [pc |-> "idle", mode |-> "goto", target |-> VZero, recent |-> Position(VZero, "North"),
           attempts |-> 0, route |-> << >>, result |-> "running"]

\* goto(pos) / goto_adjacent(pos) entered: recent = self.pos(), attempts = RETRIES + 1
goto_enter(mode, recent, target) ==
    [pc |-> "loop", mode |-> mode, target |-> target, recent |-> recent,
     attempts |-> RETRIES + 1, route |-> << >>, result |-> "running"]

\* the value returned: Some(()) of goto and Some(recent) of goto_adjacent when
\* the loop is left by break, None when route(..).await? fails
goto_return(n, some) == [n EXCEPT !.pc = "done", !.result = IF some THEN "Some" ELSE "None"]

\* break 'route: back to the head of the loop
break_route(n) == [n EXCEPT !.pc = "loop", !.route = << >>]

\* the head of the loop: arrived, or out of attempts, or a new route
goto_loop(n) ==
    IF arrived(n) THEN {goto_return(n, TRUE)}
    ELSE LET tried == [n EXCEPT !.attempts = @ - 1]
         IN  IF tried.attempts = 0 THEN {goto_return(tried, TRUE)}
             ELSE {IF r = None THEN goto_return(tried, FALSE)
                   ELSE [tried EXCEPT !.pc = "route", !.route = Unwrap(r)] :
                      r \in route_results(tried)}

\* one turn of the 'route loop, with what the World store says of the next
\* cell (occupied, garbage)
goto_step(n, occupied, garbage) ==
    IF Len(n.route) < 2 THEN {break_route(n)}
    ELSE LET next_position == n.route[2]
             command == Unwrap(Position_difference(n.route[1], next_position))
             blocked == occupied /\ (n.mode = "goto" \/ n.recent.pos /= next_position.pos)
         IN  IF blocked /\ (~garbage \/ Position_dig(n.recent, next_position.pos) = None)
             THEN {break_route(n)}
             ELSE {IF state.ret = "Failure"
                   THEN IF command.op = "Backward" THEN break_route([n EXCEPT !.recent = turned])
                        ELSE break_route(n)
                   ELSE [n EXCEPT !.recent = state.pos, !.route = Tail(n.route)] :
                      state \in execute_results(n.recent, command),
                      turned \in {second.pos :
                                    second \in UNION {execute_results(first.pos, [op |-> "Left", n |-> 0]) :
                                        first \in execute_results(n.recent, [op |-> "Left", n |-> 0])}}}

\* ------------------------------------------------------------------ paths.rs
TRANSPARENT == {"minecraft:air", "minecraft:water", "minecraft:lava"}

GARBAGE ==
    {"minecraft:stone", "minecraft:dirt", "minecraft:andesite", "minecraft:sand",
     "minecraft:gravel", "minecraft:sandstone", "minecraft:deepslate", "twigs:rhyolite",
     "minecraft:spruce_leaves", "minecraft:oak_leaves", "traverse:fir_leaves",
     "terrestria:hemlock_leaves", "wilderwild:brown_shelf_fungus",
     "wilderwild:red_shelf_fungus", "minecraft:snow"}

\* the cost of going through uncharted territory
UNKNOWN == Some(2)

\* difficulty: the cost of going into a block of this name, None if one cannot
difficulty(name) ==
    IF name \in TRANSPARENT THEN Some(1)
    ELSE IF name \in GARBAGE THEN Some(2)
    ELSE None

\* insert (in next): the move into point with its cost, unless the block
\* stored there has no difficulty
insert(point, orientation, w, unknown) ==
    LET b == World_get(w, point)
        d == IF b = None THEN unknown ELSE difficulty(Unwrap(b))
    IN  IF d = None THEN {} ELSE {[p |-> Position(point, orientation), d |-> Unwrap(d)]}

\* next with the commented-out insertion of the cell behind
next_with_behind(from, w) ==
    {[p |-> Position(from.pos, left(from.dir)), d |-> 1],
     [p |-> Position(from.pos, right(from.dir)), d |-> 1]}
    \cup insert(VAdd(from.pos, unit(from.dir)), from.dir, w, UNKNOWN)
    \cup insert(VSub(from.pos, unit(from.dir)), from.dir, w, UNKNOWN)
    \cup insert(VAdd(from.pos, VY), from.dir, w, UNKNOWN)
    \cup insert(VSub(from.pos, VY), from.dir, w, UNKNOWN)

\* next: the successors of from with their costs
next(from, w) ==
    {[p |-> Position(from.pos, left(from.dir)), d |-> 1],
     [p |-> Position(from.pos, right(from.dir)), d |-> 1]}
    \cup insert(VAdd(from.pos, unit(from.dir)), from.dir, w, UNKNOWN)
    \cup insert(VAdd(from.pos, VY), from.dir, w, UNKNOWN)
    \cup insert(VSub(from.pos, VY), from.dir, w, UNKNOWN)

\* the success test of the search: p == to for route, the facing closure for
\* route_facing
route_done(mode, to, p) ==
    IF mode = "route" THEN p = to
    ELSE \/ to = VAdd(unit(p.dir), p.pos)
         \/ to = VAdd(VNeg(VY), p.pos)
         \/ to = VAdd(VY, p.pos)

RECURSIVE SearchFrom(_, _, _, _, _)
\* astar: the paths along next from the end of path, of at most k more steps,
\* that do not revisit a position and stop at the first that passes the test
SearchFrom(path, k, mode, to, w) ==
    IF route_done(mode, to, path[Len(path)]) THEN {path}
    ELSE IF k = 0 THEN {}
    ELSE UNION {SearchFrom(Append(path, n.p), k - 1, mode, to, w) :
                  n \in {m \in next(path[Len(path)], w) :
                            \A i \in DOMAIN path : path[i] /= m.p}}

\* the cost astar sums along a path: that of each successor as next gives it
path_cost(path, w) ==
    LET F[i \in 1 .. Len(path)] ==
            IF i = 1 THEN 0
            ELSE F[i - 1] + (CHOOSE n \in next(path[i - 1], w) : n.p = path[i]).d
    IN  F[Len(path)]

\* the paths of least cost
cheapest(found, w) == {f \in found : \A g \in found : path_cost(f, w) <= path_cost(g, w)}

\* astar over the paths of at most k steps: the cheapest of them when no
\* longer path can cost less (a step costs at least 1), any of them or None
\* (no path, or the lookup limit ran out) otherwise
astar(from, to, mode, w, k) ==
    LET found == SearchFrom(<< from >>, k, mode, to, w)
        best == cheapest(found, w)
    IN  IF found = {} THEN {None}
        ELSE IF \E f \in best : path_cost(f, w) <= k + 1 THEN {Some(f) : f \in best}
        ELSE {None} \cup {Some(f) : f \in found}

\* route_to, the search limited to k steps
route_to_within(from, to, mode, w, k) ==
    {[searched |-> TRUE, result |-> r] : r \in astar(from, to, mode, w, k)}

\* route_to
route_to(from, to, mode, w) == route_to_within(from, to, mode, w, MaxRoute)

\* route_facing: no test of the goal cell
route_facing(from, to, w) == route_to(from, to, "route_facing", w)

\* route, the search limited to k steps: None at once when the block read at
\* the goal has no difficulty
route_within(from, to, w, k) ==
    LET b == World_get(w, to.pos)
    IN  IF b /= None /\ difficulty(Unwrap(b)) = None
        THEN {[searched |-> FALSE, result |-> None]}
        ELSE route_to_within(from, to, "route", w, k)

\* route
route(from, to, w) == route_within(from, to, w, MaxRoute)

\* no route call made
NoRoute == [mode |-> "none", from |-> Position(VZero, "North"), to |-> VZero, dir |-> "North",
            searched |-> FALSE, result |-> None]

\* ------------------------------------------------------------------ mine.rs: fill
\* (mutant: from 0 to x and again from 0)
step_sawtooth(n, x) == n % x

\* step: zig from 0 to x and back, stopping on each end
step(n, x) ==
    LET half == n % x
        full == n % (2 * x)
    IN  IF full > x - 1 THEN x - half - 1 ELSE full

\* fill, for n below the volume of scale (the assert!)
fill(scale, n) ==
    << step(n, scale[1]), step(n \div scale[1], scale[2]),
       step((n \div scale[1]) \div scale[2], scale[3]) >>

\* ------------------------------------------------------------------ mine.rs: Quarry
MAX_MINERS == 42

\* Vec3::component_div, Vec3::product
component_div(a, b) == << a[1] \div b[1], a[2] \div b[2], a[3] \div b[3] >>
product(a) == a[1] * a[2] * a[3]

max_chunk == << 4, 4, 4 >>

\* the parts of the ChunkedTask that Quarry::new(lower, upper) makes
Quarry_parts(lower, upper) == product(component_div(VSub(upper, lower), max_chunk))

\* Quarry::new, but for its progress, which is the ChunkedTask; history: how
\* (robot -> "panicked" or "aborted" when the run future spawned on it last
\* ended so, until the next one runs)
Quarry_new(lower, upper) ==
    [pos |-> lower, size |-> VSub(upper, lower), miners |-> 0,
     how |-> [w \in Workers |-> "none"]]

\* ------------------------------------------------------------------ tasks.rs
\* TaskState: Waiting, Complete, or Ready(position)
Waiting == [state |-> "Waiting", pos |-> VZero]
Complete == [state |-> "Complete", pos |-> VZero]
Ready(position) == [state |-> "Ready", pos |-> position]

\* a slot is an Option<AbortHandle>; the handle is the state of the spawned
\* future: "running", "aborting" (abort() called, the future not yet dropped)
\* or "finished" (it returned, panicked or was dropped after abort())
\* (mutant: every handle reports finished)
is_finished_always(join) == TRUE

\* JoinHandle::is_finished
is_finished(join) == join = "finished"

\* Scheduler::default; histories: running (name -> futures started on it and
\* not finished), receivers (one entry per shutdown() call: the signals its
\* receiver got, and whether its sender was dropped unsent), added (the tasks
\* added so far), ret (the task_on / do_on call just made: the robot named,
\* the slot found, what was returned)
Scheduler_default ==
    [turtles |-> << >>, tasks |-> << >>, shutdown |-> None,
     running |-> << >>, receivers |-> << >>, added |-> 0, ret |-> None]

\* the index in turtles of the first entry with this name, 0 when there is none
find_turtle(s, name) ==
    IF \E i \in DOMAIN s.turtles : s.turtles[i].name = name
    THEN CHOOSE i \in DOMAIN s.turtles :
            /\ s.turtles[i].name = name
            /\ \A j \in 1 .. i - 1 : s.turtles[j].name /= name
    ELSE 0

\* the slot of the robot of this name
slot_of(s, name) == s.turtles[find_turtle(s, name)].slot

\* Scheduler::add_turtle
add_turtle(s, name) ==
    IF \E i \in DOMAIN s.turtles : s.turtles[i].name = name THEN s
    ELSE [s EXCEPT !.turtles = Append(@, [name |-> name, slot |-> None]),
                   !.running = @ @@ (name :> 0)]

\* Scheduler::add_task
add_task(s, t) == [s EXCEPT !.tasks = Append(@, t)]

\* a slot takes the handle of a future just spawned
start_on(s, i) ==
    [s EXCEPT !.turtles[i].slot = Some("running"),
              !.running[s.turtles[i].name] = @ + 1]

\* (mutant: no slot is emptied)
reap_never(s) == s

\* poll, its first loop: the slots whose handle is finished are emptied
reap(s) ==
    LET F[k \in 0 .. Len(s.turtles)] ==
            IF k = 0 THEN << >>
            ELSE Append(F[k - 1],
                     IF s.turtles[k].slot /= None /\ is_finished(Unwrap(s.turtles[k].slot))
                     THEN [s.turtles[k] EXCEPT !.slot = None] ELSE s.turtles[k])
    IN  [s EXCEPT !.turtles = F[Len(s.turtles)]]

\* (mutant: the filter on empty slots is left out)
is_free_always(slot) == TRUE

\* .filter(|t| t.0.1.is_none())
is_free(slot) == slot = None

\* !self.turtles.iter().any(|t| t.1.is_some())
all_idle(s) == \A i \in DOMAIN s.turtles : s.turtles[i].slot = None

\* poll with a shutdown in progress: when no slot holds a handle the sender is
\* taken and the signal sent
poll_shutdown(s) ==
    IF all_idle(s)
    THEN [s EXCEPT !.shutdown = None, !.receivers[Unwrap(s.shutdown)].signals = @ + 1]
    ELSE s

\* the free turtles (the snapshot taken before the tasks are polled, filtered
\* on slots still empty), and of them the first with the least distance
free_turtles(s, snapshot) == {i \in snapshot : is_free(s.turtles[i].slot)}

closest_turtle(s, free, positions, position) ==
    CHOOSE i \in free :
        \A j \in free :
            \/ AbsSum(VSub(positions[i], position)) < AbsSum(VSub(positions[j], position))
            \/ AbsSum(VSub(positions[i], position)) = AbsSum(VSub(positions[j], position)) /\ i <= j

RECURSIVE poll_tasks(_, _, _, _, _, _)
\* poll, the loop over the tasks from index i: c collects what was polled,
\* started and marked done; the loop is left by break when a task is Ready
\* and no turtle is free
poll_tasks(i, s, c, outcomes, snapshot, positions) ==
    IF i > Len(s.tasks) THEN << s, c >>
    ELSE LET poll == outcomes[i]
             polled == [c EXCEPT !.polled = Append(@, s.tasks[i])]
             free == free_turtles(s, snapshot)
         IN  IF poll.state = "Ready"
             THEN IF free = {} THEN << s, polled >>
                  ELSE LET t == closest_turtle(s, free, positions, poll.pos)
                       IN  poll_tasks(i + 1, start_on(s, t),
                               [polled EXCEPT !.started = Append(@,
                                   [task |-> s.tasks[i], turtle |-> s.turtles[t].name,
                                    hint |-> poll.pos,
                                    free |-> {s.turtles[j].name : j \in free}])],
                               outcomes, snapshot, positions)
             ELSE poll_tasks(i + 1, s,
                     IF poll.state = "Complete"
                     THEN [polled EXCEPT !.done = @ \cup {i}] ELSE polled,
                     outcomes, snapshot, positions)

\* self.tasks.retain(..): the tasks not marked done
retain(q, keep) ==
    LET F[k \in 0 .. Len(q)] ==
            IF k = 0 THEN << >>
            ELSE IF k \in keep THEN Append(F[k - 1], q[k]) ELSE F[k - 1]
    IN  F[Len(q)]

\* what a poll has done, before it does anything
NoCycle ==
    [made |-> FALSE, shut |-> FALSE, sent |-> FALSE, tasks |-> << >>, outcomes |-> << >>, polled |-> << >>,
     started |-> << >>, done |-> {}, idle |-> {}]

\* Scheduler::poll: << the scheduler after it, what it did >>; outcomes[i] is
\* what tasks[i].poll() returns when called, positions[i] is turtles[i].pos()
Scheduler_poll(s, outcomes, positions) ==
    LET reaped == reap(s)
        c == [NoCycle EXCEPT !.made = TRUE, !.shut = s.shutdown /= None, !.tasks = s.tasks,
                             !.outcomes = outcomes,
                             !.idle = {reaped.turtles[i].name : i \in
                                          {j \in DOMAIN reaped.turtles : reaped.turtles[j].slot = None}}]
    IN  IF reaped.shutdown /= None
        THEN << poll_shutdown(reaped), [c EXCEPT !.sent = all_idle(reaped)] >>
        ELSE LET snapshot == {i \in DOMAIN reaped.turtles : reaped.turtles[i].slot = None}
                 r == poll_tasks(1, reaped, c, outcomes, snapshot, positions)
             IN  << [r[1] EXCEPT !.tasks = retain(@, DOMAIN @ \ r[2].done)], r[2] >>

\* Scheduler::task_on / do_on
task_on(s, name) ==
    LET i == find_turtle(s, name)
    IN  IF i = 0
        THEN [s EXCEPT !.ret = Some([name |-> name, slot |-> None, val |-> "None"])]
        ELSE IF s.turtles[i].slot /= None
        THEN [s EXCEPT !.ret = Some([name |-> name, slot |-> s.turtles[i].slot, val |-> "None"])]
        ELSE [start_on(s, i) EXCEPT
                 !.ret = Some([name |-> name, slot |-> None, val |-> "Some"])]

\* Scheduler::cancel: abort() on the handle in the slot, which does nothing to
\* a finished future
Scheduler_cancel(s, name) ==
    LET i == find_turtle(s, name)
    IN  IF i /= 0 /\ s.turtles[i].slot = Some("running")
        THEN [s EXCEPT !.turtles[i].slot = Some("aborting")]
        ELSE s

\* Scheduler::shutdown: a new channel; the sender stored before, if any, is
\* dropped and its receiver closed
Scheduler_shutdown(s) ==
    LET closed == IF s.shutdown = None THEN s.receivers
                  ELSE [s.receivers EXCEPT ![Unwrap(s.shutdown)].closed = TRUE]
    IN  [s EXCEPT !.receivers = Append(closed, [signals |-> 0, closed |-> FALSE]),
                  !.shutdown = Some(Len(closed) + 1)]

\* the future in the slot of this robot ends: its handle reports finished
future_ends(s, name) ==
    LET i == find_turtle(s, name)
    IN  [s EXCEPT !.turtles[i].slot = Some("finished"), !.running[name] = @ - 1]

\* ------------------------------------------------------------------ mine.rs: Quarry as a Task
\* self.miners.fetch_update(|n| if n < MAX_MINERS { Some(n + 1) } else { None }): [ok, quarry]
fetch_update_miners(q) ==
    IF q.miners < MAX_MINERS
    THEN [ok |-> TRUE, quarry |-> [q EXCEPT !.miners = @ + 1]]
    ELSE [ok |-> FALSE, quarry |-> q]

\* Quarry::poll: [state, quarry]
Quarry_poll(q, t) ==
    IF done(t) THEN [state |-> Complete, quarry |-> q]
    ELSE IF allocated(t) THEN [state |-> Waiting, quarry |-> q]
    ELSE LET only == fetch_update_miners(q)
         IN  IF only.ok THEN [state |-> Ready(q.pos), quarry |-> only.quarry]
             ELSE [state |-> Waiting, quarry |-> only.quarry]

\* owned.miners.fetch_sub(1)
fetch_sub_miners(q) == [q EXCEPT !.miners = @ - 1]

\* ------------------------------------------------------------------ construct.rs
\* BuildSimple::new: region Some, miners 0, progress 0, height = size.y; job is
\* the run future ("idle": none) and the layer it builds; histories: built,
\* the layers build_layer returned Some for, handed, the layers in the order
\* run took them, state, what the poll just made returned
BuildSimple_new(height) ==
    [height |-> height, progress |-> 0, miners |-> 0, region |-> TRUE,
     job |-> [pc |-> "idle", layer |-> 0], built |-> {}, handed |-> << >>, state |-> "none"]

\* BuildSimple::poll: the build after it, with the state it returned
BuildSimple_poll(b) ==
    IF ~b.region \/ b.progress = b.height THEN [b EXCEPT !.state = "Complete"]
    ELSE IF b.miners < 1 THEN [b EXCEPT !.miners = @ + 1, !.state = "Ready"]
    ELSE [b EXCEPT !.state = "Waiting"]

\* BuildSimple::run, the future up to build_layer: progress.fetch_add(1), and
\* return when height < layer
run_takes_layer(b) ==
    LET layer == b.progress
        taken == [b EXCEPT !.progress = @ + 1, !.state = "none"]
    IN  IF b.height < layer
        THEN [taken EXCEPT !.job = [pc |-> "idle", layer |-> 0]]
        ELSE [taken EXCEPT !.job = [pc |-> "building", layer |-> layer],
                           !.handed = Append(@, layer)]

\* BuildSimple::run, after build_layer returned: progress.fetch_sub(1) on None,
\* miners.fetch_sub(1)
run_after_layer(b, ok) ==
    [b EXCEPT !.progress = IF ok THEN @ ELSE @ - 1,
              !.miners = @ - 1,
              !.built = IF ok THEN @ \cup {b.job.layer} ELSE @,
              !.job = [pc |-> "idle", layer |-> 0],
              !.state = "none"]

\* ------------------------------------------------------------------ depot.rs
\* Position::manhattan
Position_manhattan(self, other) == AbsSum(VSub(self.pos, other.pos))

Robots == 1 .. NumRobots

\* the positions of the depots the server starts with, and of the added ones
StartDepots == << Position(<< 1, 0, 0 >>, "North"), Position(<< 4, 0, 0 >>, "North") >>
AddedDepots == {Position(<< 2, 0, 0 >>, "North")}
\* turtle.pos() of each robot, where it is while it calls nearest / dock
TurtlePositions ==
    [r \in Robots |-> Position(<< IF r % 2 = 1 THEN 0 ELSE 3, 0, 0 >>, "North")]

\* Depots::from_vec: one Mutex per position, none locked (0), the semaphore
\* has as many permits as there are depots; guard is the holder of
\* depots.lock() (0: free), owed the add calls between push and add_permits
Depots_from_vec(vec) ==
    [list |-> vec, locks |-> [i \in DOMAIN vec |-> 0], permits |-> Len(vec),
     guard |-> 0, owed |-> 0]

\* a robot that has no call under way
NoDock == [pc |-> "idle", pos |-> Position(VZero, "North"), i |-> 0, best |-> 0,
           free |-> {}, depot |-> 0, how |-> "none"]

\* try_lock_owned().ok() on depot i: Some when its lock is not held
try_lock_takes_held(d, i) == TRUE

try_lock_owned(d, i) == d.locks[i] = 0

\* min_by_key keeps the element it has unless the new one has a lesser key
nearer_is_last(d, pos, i, best) == TRUE

nearer(d, pos, i, best) ==
    best = 0 \/ Position_manhattan(d.list[i], pos) < Position_manhattan(d.list[best], pos)

\* one element of the scan in nearest: filter_map tries the lock of depot i,
\* min_by_key keeps the guard with the lesser key and drops the other
scan_step(d, k, r) ==
    IF try_lock_owned(d, k.i)
    THEN IF nearer(d, k.pos, k.i, k.best)
         THEN << [d EXCEPT !.locks = [j \in DOMAIN @ |->
                                        IF j = k.i THEN r ELSE IF j = k.best THEN 0 ELSE @[j]]],
                 [k EXCEPT !.i = @ + 1, !.best = k.i, !.free = @ \cup {k.i}] >>
         ELSE << d, [k EXCEPT !.i = @ + 1, !.free = @ \cup {k.i}] >>
    ELSE << d, [k EXCEPT !.i = @ + 1] >>

\* dropping a DepotGuard: its fields in declaration order, mutex then semaphore
drop_mutex(d, k) == [d EXCEPT !.locks[k.depot] = 0]
drop_semaphore_leaks(d) == d
drop_semaphore(d) == [d EXCEPT !.permits = @ + 1]

\* ------------------------------------------------------------------ the robot
\* The robot and the world it stands in are outside the server: one fuel per
\* cell moved, a move stops at the first solid cell or at fuel 0.
AIR == "minecraft:air"
STONE == "minecraft:stone"

\* the block at a cell of the real world: ground below y = 0 and a wall two
\* cells north of the origin
TrueBlock(cell) == IF cell[2] < 0 \/ cell = << 0, 0, -2 >> THEN STONE ELSE AIR

\* the slots of the robot that hold an item; a probe is answered with what
\* the slot holds or with Success, and with Failure too for FailingSlots
RobotItems == {1}
FailingSlots == {1}

RECURSIVE robot_move(_, _, _)
\* up to n steps along delta; stops when blocked or out of fuel
robot_move(r, delta, n) ==
    IF n = 0 THEN [r EXCEPT !.ret = "Success"]
    ELSE IF r.fuel = 0 \/ TrueBlock(VAdd(r.pos, delta)) /= AIR
         THEN [r EXCEPT !.ret = "Failure"]
         ELSE robot_move([r EXCEPT !.pos = VAdd(@, delta), !.fuel = @ - 1], delta, n - 1)

\* the outcomes of the robot running one command
robot_exec(r, cmd) ==
    CASE cmd.op \in {"Forward", "Backward", "Up", "Down"} ->
            {robot_move(r, Command_unit(cmd, r.dir), cmd.n)}
      [] cmd.op = "Left" -> {[r EXCEPT !.dir = left(@), !.ret = "Success"]}
      [] cmd.op = "Right" -> {[r EXCEPT !.dir = right(@), !.ret = "Success"]}
      [] cmd.op \in {"Wait", "Update"} -> {[r EXCEPT !.ret = "None"]}
      [] cmd.op = "ItemInfo" ->
            {[r EXCEPT !.ret = x] :
                x \in {IF cmd.n \in RobotItems THEN "Item" ELSE "None", "Success"}
                      \cup {"Failure" : k \in {cmd.n} \cap FailingSlots}}
      [] OTHER -> {[r EXCEPT !.ret = x] : x \in {"Success", "Failure"}}

\* the TurtleUpdate the robot posts
robot_update(r) ==
    [fuel |-> r.fuel,
     ahead |-> TrueBlock(VAdd(r.pos, unit(r.dir))),
     above |-> TrueBlock(VAdd(r.pos, VY)),
     below |-> TrueBlock(VSub(r.pos, VY)),
     ret |-> r.ret]

\* ------------------------------------------------------------------ initial values
NoLoc == [minimum |-> 0, head |-> 0, curr |-> 0, max |-> 0]
NoCall == [op |-> "new", worker |-> 0, chunk |-> None]
\* no call is kept: the specifications that do not ask for the order of the calls
NoCalls == [on |-> FALSE, log |-> << >>, start |-> ChunkedTask_new(0)]

InitWorld ==
    /\ world = World_new
    /\ written = << >>

\* ChunkedTask::new(max) with no guard handed out
InitTask(maxes) ==
    /\ task \in {ChunkedTask_new(n) : n \in maxes}
    /\ guard = [w \in Workers |-> None]
    /\ pc = [w \in Workers |-> "idle"]
    /\ loc = [w \in Workers |-> NoLoc]
    /\ issued = {}
    /\ finished = {}
    /\ cancelled = {}
    /\ lastCall = NoCall
    /\ calls = NoCalls

Callers == 1 .. NumCallers
StartPosition == Position(VZero, "North")
NoExecute == [pc |-> "idle", tok |-> 0, cmd |-> Command("Wait", 0), reply |-> None]

\* one turtle registered at position (create_turtle), its commander made, no
\* execute called
InitSessionAt(position) ==
    /\ turtle = Turtle_with_channel(position, MaxFuel)
    /\ inbox = << >>
    /\ senders = << >>
    /\ sess = "idle"
    /\ robot = [pos |-> position.pos, dir |-> position.dir,
                fuel |-> MaxFuel, ret |-> "None"]
    /\ caller = [c \in Callers |-> NoExecute]
    /\ commander = TurtleCommander_new(Turtle_with_channel(position, MaxFuel))
    /\ ncalls = 0
    /\ dispatched = << >>
    /\ delivered = {}
    /\ reported = << >>
    /\ answer = None
    /\ asked = None

InitSession == InitSessionAt(StartPosition)

\* no goto call is running
InitNav == nav = NoGoto

InitRouted == routed = NoRoute

\* no box walked
InitFilling == filling = [scale |-> << 1, 1, 1 >>, n |-> 0, prev |-> VZero, at |-> VZero, seen |-> {}]

\* no build made
InitBuild == build = BuildSimple_new(0)

\* no quarry made
InitQuarry == quarry = Quarry_new(VZero, VZero)

\* Scheduler::default, no poll made
InitSched ==
    /\ sched = Scheduler_default
    /\ cycle = NoCycle

\* Depots::from_vec of the saved depots; no robot docking
InitDepots ==
    /\ depots = Depots_from_vec(StartDepots)
    /\ docker = [r \in Robots |-> NoDock]

\* ------------------------------------------------------------------ World specification
\* block names written by the World specification
Names == {"a", "b"}

\* cells in one chunk, in neighbouring chunks, with negative coordinates,
\* close to the origin and away from it
WorldCells ==
    { << 0, 0, 0 >>, << 1, 0, 0 >>, << CHUNK_SIZE, 0, 0 >>, << -1, 0, 0 >>,
      << MaxCoord * CHUNK_SIZE, 0, 0 - MaxCoord * CHUNK_SIZE >>,
      << MaxCoord * CHUNK_SIZE + 1, 0, 0 - MaxCoord * CHUNK_SIZE >> }

\* one World::set call
Set(cell, name) ==
    /\ world' = World_set(world, [name |-> name, pos |-> cell])
    /\ written' = [c \in DOMAIN written \cup {cell} |->
                      IF c = cell THEN name ELSE written[c]]
    /\ UNCHANGED exceptWorld

NextWorld == \E cell \in WorldCells, name \in Names : Set(cell, name)

InitSpecWorld == InitWorld /\ InitTask({0}) /\ InitSession /\ InitNav /\ InitDepots /\ InitRouted /\ InitSched /\ InitQuarry /\ InitFilling /\ InitBuild

SpecWorld == InitSpecWorld /\ [][NextWorld]_vars

\* ------------------------------------------------------------------ ChunkedTask, whole calls
\* the guard worker w holds
held(w) == Unwrap(guard[w])

\* w calls next_chunk
NextChunk(w) ==
    /\ guard[w] = None
    /\ task.canceled /= << >> \/ task.head < task.max + MaxOver
    /\ LET r == next_chunk(task)
       IN  /\ task' = r.task
           /\ guard' = [guard EXCEPT ![w] =
                           IF IsSome(r.ret) THEN Some(with_task(Unwrap(r.ret))) ELSE None]
           /\ issued' = issued \cup {r.ret[i] : i \in DOMAIN r.ret}
           /\ lastCall' = [op |-> "next_chunk", worker |-> w, chunk |-> r.ret]
    /\ UNCHANGED << pc, loc, finished, cancelled, calls, exceptTask >>

\* w calls finish() on its guard
Finish(w) ==
    /\ guard[w] /= None
    /\ task' = Guard_finish(task, held(w))
    /\ guard' = [guard EXCEPT ![w] = None]
    /\ finished' = finished \cup {held(w).chunk}
    /\ lastCall' = [op |-> "finish", worker |-> w, chunk |-> Some(held(w).chunk)]
    /\ UNCHANGED << pc, loc, issued, cancelled, calls, exceptTask >>

\* w calls cancel() on its guard
Cancel(w) ==
    /\ guard[w] /= None
    /\ task' = Guard_cancel(task, held(w))
    /\ guard' = [guard EXCEPT ![w] = None]
    /\ cancelled' = cancelled \cup {held(w).chunk}
    /\ lastCall' = [op |-> "cancel", worker |-> w, chunk |-> Some(held(w).chunk)]
    /\ UNCHANGED << pc, loc, issued, finished, calls, exceptTask >>

\* the guard of w is dropped without finish(): its scope ends, or the task that
\* holds it is aborted or panics
Drop(w) ==
    /\ guard[w] /= None
    /\ task' = Guard_drop(task, held(w))
    /\ guard' = [guard EXCEPT ![w] = None]
    /\ cancelled' = cancelled \cup {held(w).chunk}
    /\ lastCall' = [op |-> "drop", worker |-> w, chunk |-> Some(held(w).chunk)]
    /\ UNCHANGED << pc, loc, issued, finished, calls, exceptTask >>

NextTask == \E w \in Workers : NextChunk(w) \/ Finish(w) \/ Cancel(w) \/ Drop(w)

InitSpecTask == InitWorld /\ InitTask(1 .. MaxChunks) /\ InitSession /\ InitNav /\ InitDepots /\ InitRouted /\ InitSched /\ InitQuarry /\ InitFilling /\ InitBuild

SpecTask == InitSpecTask /\ [][NextTask]_vars

\* ------------------------------------------------------------------ ChunkedTask, step by step
\* Each atomic operation of next_chunk, mark_done and cancel is one step of the
\* calling worker; pc[w] names the next one.  "idle": no call and no guard;
\* "hold": no call, a live guard.
SetPc(w, p) == pc' = [pc EXCEPT ![w] = p]

\* the call of w returns: the history variables and the guard; the values the
\* call had loaded go out of scope
Returns(w, op, ret, g) ==
    /\ lastCall' = [op |-> op, worker |-> w, chunk |-> ret]
    /\ calls' = record(calls, [op |-> op, worker |-> w, chunk |-> ret])
    /\ guard' = [guard EXCEPT ![w] = g]
    /\ loc' = [loc EXCEPT ![w] = NoLoc]

\* next_chunk, cancelled.try_recv()
NcRecv(w) ==
    /\ pc[w] = "idle"
    /\ task.canceled /= << >> \/ task.head < task.max + StepOver
    /\ IF IsSome(try_recv(task))
       THEN /\ task' = after_recv(task)
            /\ Returns(w, "next_chunk", try_recv(task), Some(with_task(Unwrap(try_recv(task)))))
            /\ issued' = issued \cup {Unwrap(try_recv(task))}
            /\ SetPc(w, "hold")
       ELSE /\ SetPc(w, "nc_confirmed")
            /\ UNCHANGED << task, guard, loc, issued, lastCall, calls >>
    /\ UNCHANGED << finished, cancelled, exceptTask >>

\* next_chunk, let minimum = self.confirmed.load()
NcLoadConfirmed(w) ==
    /\ pc[w] = "nc_confirmed"
    /\ loc' = [loc EXCEPT ![w].minimum = task.confirmed]
    /\ SetPc(w, "nc_head")
    /\ UNCHANGED << task, guard, issued, finished, cancelled, lastCall, calls, exceptTask >>

\* next_chunk, let head = self.head.load()
NcLoadHead(w) ==
    /\ pc[w] = "nc_head"
    /\ loc' = [loc EXCEPT ![w].head = task.head]
    /\ SetPc(w, "nc_cas")
    /\ UNCHANGED << task, guard, issued, finished, cancelled, lastCall, calls, exceptTask >>

\* next_chunk, self.head.compare_exchange(head, minimum.max(head)); retried on failure
NcCas(w) ==
    /\ pc[w] = "nc_cas"
    /\ LET r == cas_head(task, loc[w].head, loc[w].minimum)
       IN  /\ task' = r.task
           /\ SetPc(w, IF r.ok THEN "nc_add" ELSE "nc_confirmed")
    /\ UNCHANGED << guard, loc, issued, finished, cancelled, lastCall, calls, exceptTask >>

\* next_chunk, self.head.fetch_add(1) and the bound check
NcFetchAdd(w) ==
    /\ pc[w] = "nc_add"
    /\ LET r == fetch_add_head(task)
           ret == chunk_or_none(task, r.old)
       IN  /\ task' = r.task
           /\ Returns(w, "next_chunk", ret,
                      IF IsSome(ret) THEN Some(with_task(Unwrap(ret))) ELSE None)
           /\ issued' = issued \cup {ret[i] : i \in DOMAIN ret}
           /\ SetPc(w, IF IsSome(ret) THEN "hold" ELSE "idle")
    /\ UNCHANGED << finished, cancelled, exceptTask >>

\* finish -> mark_done, the check canceled.len() == 0
MdLen(w) ==
    /\ pc[w] = "hold"
    /\ SetPc(w, IF Len(task.canceled) = 0 THEN "md_load" ELSE "fin_drop")
    /\ UNCHANGED << task, guard, loc, issued, finished, cancelled, lastCall, calls, exceptTask >>

\* mark_done, let curr = self.confirmed.load()
MdLoad(w) ==
    /\ pc[w] = "md_load"
    /\ loc' = [loc EXCEPT ![w].curr = task.confirmed]
    /\ SetPc(w, "md_cas")
    /\ UNCHANGED << task, guard, issued, finished, cancelled, lastCall, calls, exceptTask >>

\* mark_done, self.confirmed.compare_exchange(curr, curr.max(chunk)); retried on failure
MdCas(w) ==
    /\ pc[w] = "md_cas"
    /\ LET r == cas_confirmed(task, loc[w].curr, held(w).chunk)
       IN  /\ task' = r.task
           /\ SetPc(w, IF r.ok THEN "fin_drop" ELSE "md_load")
    /\ UNCHANGED << guard, loc, issued, finished, cancelled, lastCall, calls, exceptTask >>

\* finish, self.complete = true and the drop of self at the end of finish
FinishDrop(w) ==
    /\ pc[w] = "fin_drop"
    /\ task' = Guard_drop(task, [held(w) EXCEPT !.complete = TRUE])
    /\ Returns(w, "finish", Some(held(w).chunk), None)
    /\ finished' = finished \cup {held(w).chunk}
    /\ SetPc(w, "idle")
    /\ UNCHANGED << issued, cancelled, exceptTask >>

\* drop of a guard that is not complete (cancel(), scope end, abort, panic):
\* ChunkedTask::cancel, let max = self.head.load()
CnLoadHead(w) ==
    /\ pc[w] = "hold"
    /\ drop_cancels(held(w))
    /\ loc' = [loc EXCEPT ![w].max = task.head]
    /\ SetPc(w, "cn_send")
    /\ UNCHANGED << task, guard, issued, finished, cancelled, lastCall, calls, exceptTask >>

\* ChunkedTask::cancel, the send when chunk < max
CnSend(w) ==
    /\ pc[w] = "cn_send"
    /\ task' = send_if_below(task, held(w).chunk, loc[w].max)
    /\ Returns(w, "drop", Some(held(w).chunk), None)
    /\ cancelled' = cancelled \cup {held(w).chunk}
    /\ SetPc(w, "idle")
    /\ UNCHANGED << issued, finished, exceptTask >>

NextTaskSteps ==
    \E w \in Workers :
        \/ NcRecv(w) \/ NcLoadConfirmed(w) \/ NcLoadHead(w) \/ NcCas(w) \/ NcFetchAdd(w)
        \/ MdLen(w) \/ MdLoad(w) \/ MdCas(w) \/ FinishDrop(w)
        \/ CnLoadHead(w) \/ CnSend(w)

InitSpecTaskSteps == InitWorld /\ InitTask(1 .. StepChunks) /\ InitSession /\ InitNav /\ InitDepots /\ InitRouted /\ InitSched /\ InitQuarry /\ InitFilling /\ InitBuild

SpecTaskSteps == InitSpecTaskSteps /\ [][NextTaskSteps]_vars

\* ------------------------------------------------------------------ ChunkedTask, the order of the calls
\* The steps of the step-by-step specification, with the calls that returned
\* kept in calls.log; at most MaxLog calls are made.  The task is new, or read
\* back from a save with the confirmed index it had.
InitLinear ==
    /\ task \in UNION {{deserialized(n, c) : c \in 0 .. n - 1} : n \in 1 .. StepChunks}
    /\ guard = [w \in Workers |-> None]
    /\ pc = [w \in Workers |-> "idle"]
    /\ loc = [w \in Workers |-> NoLoc]
    /\ issued = {}
    /\ finished = {}
    /\ cancelled = {}
    /\ lastCall = NoCall
    /\ calls = [on |-> TRUE, log |-> << >>, start |-> task]

\* the calls made so far: those that returned and those under way
calls_made == Len(calls.log) + Cardinality({w \in Workers : pc[w] \notin {"idle", "hold"}})

\* no call is under way
quiescent == \A w \in Workers : pc[w] \in {"idle", "hold"}

\* the calls of worker w in the history, in its order
calls_of(w) == SelectSeq(calls.log, LAMBDA c : c.worker = w)

\* the tasks some one-at-a-time order of the calls of the history ends in
sequential_ends ==
    sequential(calls.start, [w \in Workers |-> calls_of(w)], Workers)

LinearStep(w) ==
    /\ pc[w] \in {"idle", "hold"} => calls_made < MaxLog
    /\ \/ NcRecv(w) \/ NcLoadConfirmed(w) \/ NcLoadHead(w) \/ NcCas(w) \/ NcFetchAdd(w)
       \/ MdLen(w) \/ MdLoad(w) \/ MdCas(w) \/ FinishDrop(w)
       \/ CnLoadHead(w) \/ CnSend(w)

NextLinear == \E w \in Workers : LinearStep(w)

InitSpecLinear == InitWorld /\ InitLinear /\ InitSession /\ InitNav /\ InitDepots /\ InitRouted /\ InitSched /\ InitQuarry /\ InitFilling /\ InitBuild

SpecLinear == InitSpecLinear /\ [][NextLinear]_vars

\* ------------------------------------------------------------------ session specification
\* commands the callers issue
CallerCommands == {Command("Forward", 1), Command("Left", 0)}

\* execute(cmd) called by c: the message goes into the inbox, or c blocks in send
Call(c, cmd) ==
    /\ caller[c].pc = "idle"
    /\ LET msg == [cmd |-> cmd, tok |-> ncalls + 1, caller |-> c]
       IN  IF has_permit(inbox, senders)
           THEN /\ inbox' = Append(inbox, msg)
                /\ caller' = [caller EXCEPT ![c] = [pc |-> "awaiting", tok |-> msg.tok,
                                                    cmd |-> cmd, reply |-> None]]
                /\ UNCHANGED senders
           ELSE /\ senders' = Append(senders, msg)
                /\ caller' = [caller EXCEPT ![c] = [pc |-> "sending", tok |-> msg.tok,
                                                    cmd |-> cmd, reply |-> None]]
                /\ UNCHANGED inbox
    /\ ncalls' = ncalls + 1
    /\ UNCHANGED << turtle, sess, robot, commander, dispatched, delivered, reported, answer, asked,
                    world, exceptSess >>

\* caller c calls execute(cmd)
Execute(c, cmd) == ncalls < MaxCalls /\ Call(c, cmd)

\* the blocked send of c completes: c was given the freed slot
SendCompletes(c) ==
    /\ caller[c].pc = "sending"
    /\ Len(inbox) < INBOX_CAPACITY
    /\ next_sender(senders).caller = c
    /\ inbox' = Append(inbox, next_sender(senders))
    /\ senders' = SelectSeq(senders, LAMBDA m : m.caller /= c)
    /\ caller' = [caller EXCEPT ![c].pc = "awaiting"]
    /\ UNCHANGED << turtle, sess, robot, commander, ncalls, dispatched, delivered,
                    reported, answer, asked, world, exceptSess >>

\* c receives its reply: the rest of execute
Resume(c) ==
    /\ caller[c].pc = "awaiting"
    /\ caller[c].reply /= None
    /\ commander' = execute_store(commander, caller[c].cmd, Unwrap(caller[c].reply))
    /\ caller' = [caller EXCEPT ![c] = NoExecute]
    /\ UNCHANGED << turtle, inbox, senders, sess, robot, ncalls, dispatched, delivered,
                    reported, answer, asked, world, exceptSess >>

\* the task of c is aborted inside execute: its send or its reply receiver is dropped
Abort(c) ==
    /\ caller[c].pc \in {"sending", "awaiting"}
    /\ senders' = SelectSeq(senders, LAMBDA m : m.caller /= c)
    /\ caller' = [caller EXCEPT ![c] = NoExecute]
    /\ UNCHANGED << turtle, inbox, sess, robot, commander, ncalls, dispatched, delivered,
                    reported, answer, asked, world, exceptSess >>

\* update_turtles (GET /turtle/updateAll): it needs the turtle's write lock
UpdateAll ==
    /\ sess = "idle"
    /\ ~turtle.pending_update
    /\ turtle' = [turtle EXCEPT !.pending_update = TRUE]
    /\ UNCHANGED << inbox, senders, sess, robot, caller, commander, ncalls, dispatched,
                    delivered, reported, answer, asked, world, exceptSess >>

\* process_turtle_update with pending_update set: the robot is told to Update
UpdatePending ==
    /\ sess = "idle"
    /\ turtle.pending_update
    /\ turtle' = clear_pending(turtle)
    /\ robot' \in robot_exec(robot, Command("Update", 0))
    /\ answer' = Some(Command("Update", 0))
    /\ asked' = Some(TURTLE_ID)
    /\ UNCHANGED << inbox, senders, sess, caller, commander, ncalls, dispatched,
                    delivered, reported, world, exceptSess >>

\* process_turtle_update up to the wait on the inbox: fuel attribution, the
\* three observations, the reply to the pending caller
UpdateObserve ==
    /\ sess = "idle"
    /\ ~turtle.pending_update
    /\ LET update == robot_update(robot)
           moved == attribute_fuel(turtle, update)
           info == TurtleInfo_from_update(update, moved.position)
           taken == take_callback(moved)
       IN  /\ world' = observe(world, moved, update)
           /\ turtle' = taken.turtle
           /\ delivered' = delivered \cup {taken.send[i] : i \in DOMAIN taken.send}
           /\ caller' = [c \in Callers |->
                           IF caller[c].pc = "awaiting" /\ Some(caller[c].tok) = taken.send
                           THEN [caller[c] EXCEPT !.reply = Some(info)]
                           ELSE caller[c]]
    /\ sess' = "recv"
    /\ UNCHANGED << inbox, senders, robot, commander, ncalls, dispatched, reported, answer, asked,
                    exceptSess >>

\* process_turtle_update, a command arrives within COMMAND_TIMEOUT: it is
\* returned to the robot, which runs it
Dispatch ==
    /\ sess = "recv"
    /\ inbox /= << >>
    /\ LET msg == Head(inbox)
       IN  /\ inbox' = Tail(inbox)
           /\ turtle' = accept_command(turtle, msg)
           /\ dispatched' = Append(dispatched, msg.tok)
           /\ robot' \in robot_exec(robot, msg.cmd)
           /\ reported' = reported @@ (msg.tok :> robot'.ret)
           /\ answer' = Some(msg.cmd)
           /\ asked' = Some(TURTLE_ID)
    /\ sess' = "idle"
    /\ UNCHANGED << senders, caller, commander, ncalls, delivered, world, exceptSess >>

\* process_turtle_update, no command within COMMAND_TIMEOUT: None, which the
\* command handler answers with Wait(IDLE_TIME)
Timeout ==
    /\ sess = "recv"
    /\ inbox = << >>
    /\ robot' \in robot_exec(robot, Command("Wait", IDLE_TIME))
    /\ sess' = "idle"
    /\ answer' = Some(Command("Wait", IDLE_TIME))
    /\ asked' = Some(TURTLE_ID)
    /\ UNCHANGED << turtle, inbox, senders, caller, commander, ncalls, dispatched,
                    delivered, reported, world, exceptSess >>

\* the ids past the registered ones
UnregisteredIds == Cardinality(Registered) .. Cardinality(Registered) + MaxIdOver

\* command (POST /turtle/{id}/update) for an id that is not registered
UpdateUnregistered(id) ==
    /\ id \notin Registered
    /\ answer' = Some(command_unregistered(id, Cardinality(Registered)))
    /\ asked' = Some(id)
    /\ UNCHANGED << turtle, inbox, senders, sess, robot, caller, commander, ncalls,
                    dispatched, delivered, reported, world, exceptSess >>

NextSession ==
    \/ \E c \in Callers, cmd \in CallerCommands : Execute(c, cmd)
    \/ \E c \in Callers : SendCompletes(c) \/ Resume(c) \/ Abort(c)
    \/ UpdateAll
    \/ UpdatePending
    \/ UpdateObserve
    \/ Dispatch
    \/ Timeout

InitSpecSession == InitWorld /\ InitTask({0}) /\ InitSession /\ InitNav /\ InitDepots /\ InitRouted /\ InitSched /\ InitQuarry /\ InitFilling /\ InitBuild

SpecSession == InitSpecSession /\ [][NextSession]_vars

\* ------------------------------------------------------------------ inventory specification
\* One task, caller 1, calls inventory() and execute with commands that are
\* no movement; the robot answers a probe with what the slot holds, or with
\* Success or Failure.
InventoryCommands == {Command("Wait", 0), Command("Dig", 0)}

\* the task calls execute(cmd)
InvExecute(cmd) ==
    /\ commander.scan.pc = "idle"
    /\ ncalls - commander.scan.probes < MaxCalls
    /\ Call(1, cmd)

\* execute returns to the task
InvResume ==
    /\ commander.scan.pc = "idle"
    /\ Resume(1)

\* the task calls inventory(): self.inventory.write().await, then the cached
\* snapshot or the first turn of the loop
InventoryCall ==
    /\ caller[1].pc = "idle"
    /\ commander.scan.pc = "idle"
    /\ commander.scan.made < MaxScans
    /\ commander.lock = 0
    /\ commander' = inventory_enter(commander, 1, ncalls)
    /\ UNCHANGED << turtle, inbox, senders, sess, robot, caller, ncalls, dispatched, delivered,
                    reported, answer, asked, world, exceptSess >>

\* inventory(), self.execute(TurtleCommand::ItemInfo(i)) is called
Probe ==
    /\ commander.scan.pc = "probing"
    /\ caller[1].pc = "idle"
    /\ Call(1, Command("ItemInfo", commander.scan.i))

\* the execute of a probe gets its reply: the inventory is written, which
\* needs the write lock inventory() holds, or execute returns the response
ProbeReturns ==
    /\ commander.scan.pc = "probing"
    /\ caller[1].pc = "awaiting"
    /\ caller[1].reply /= None
    /\ LET resp == Unwrap(caller[1].reply)
       IN  IF invalidates(caller[1].cmd, resp) /\ commander.lock /= 0
           THEN /\ caller' = [caller EXCEPT ![1].pc = "locking"]
                /\ UNCHANGED commander
           ELSE /\ caller' = [caller EXCEPT ![1] = NoExecute]
                /\ commander' = [execute_store(commander, caller[1].cmd, resp) EXCEPT
                                    !.scan.pc = "push", !.scan.got = resp.ret,
                                    !.scan.probes = @ + 1]
    /\ UNCHANGED << turtle, inbox, senders, sess, robot, ncalls, dispatched, delivered,
                    reported, answer, asked, world, exceptSess >>

\* inventory(), the match arm pushes the slot; the loop goes on or ends
ProbePush ==
    /\ commander.scan.pc = "push"
    /\ commander' = scan_push(commander)
    /\ UNCHANGED << turtle, inbox, senders, sess, robot, caller, ncalls, dispatched, delivered,
                    reported, answer, asked, world, exceptSess >>

NextInventory ==
    \/ \E cmd \in InventoryCommands : InvExecute(cmd)
    \/ InvResume
    \/ InventoryCall
    \/ Probe
    \/ ProbeReturns
    \/ ProbePush
    \/ UpdatePending
    \/ UpdateObserve
    \/ Dispatch

InitSpecInventory == InitWorld /\ InitTask({0}) /\ InitSession /\ InitNav /\ InitDepots /\ InitRouted /\ InitSched /\ InitQuarry /\ InitFilling /\ InitBuild

SpecInventory == InitSpecInventory /\ [][NextInventory]_vars

\* ------------------------------------------------------------------ build specification
\* One BuildSimple is polled by the scheduler, which calls run when the poll
\* is Ready and a robot is free; build_layer succeeds or fails.
Heights == 1 .. MaxHeight

InitBuilding == build \in {BuildSimple_new(h) : h \in Heights}

\* Scheduler::poll polls the build; run spawns the future when it is Ready and
\* a robot is free
BuildPoll(free) ==
    /\ LET p == BuildSimple_poll(build)
       IN  build' = IF p.state = "Ready" /\ free /\ build.job.pc = "idle"
                    THEN [p EXCEPT !.job.pc = "spawned"]
                    ELSE p
    /\ UNCHANGED exceptBuild

\* the future runs up to build_layer
BuildRuns ==
    /\ build.job.pc = "spawned"
    /\ Len(build.handed) < build.height + MaxRedo
    /\ build' = run_takes_layer(build)
    /\ UNCHANGED exceptBuild

\* build_layer returns, Some(()) when ok
BuildLayerEnds(ok) ==
    /\ build.job.pc = "building"
    /\ build' = run_after_layer(build, ok)
    /\ UNCHANGED exceptBuild

NextBuild ==
    \/ \E free \in BOOLEAN : BuildPoll(free)
    \/ BuildRuns
    \/ \E ok \in BOOLEAN : BuildLayerEnds(ok)

InitSpecBuild == InitWorld /\ InitTask({0}) /\ InitSession /\ InitNav /\ InitDepots /\ InitRouted /\ InitSched /\ InitQuarry /\ InitFilling /\ InitBuilding

SpecBuild == InitSpecBuild /\ [][NextBuild]_vars

\* ------------------------------------------------------------------ movement specification
\* One task drives the turtle with moves and turns; the robot runs into the
\* wall, the ground and an empty tank.
MoveCommands ==
    {Command("Forward", 2), Command("Backward", 1), Command("Up", 1), Command("Down", 1),
     Command("Left", 0), Command("Right", 0)}

\* the task calls execute(cmd)
ExecuteMove(cmd) == ncalls < MaxMoves /\ Call(1, cmd)

NextMoves ==
    \/ \E cmd \in MoveCommands : ExecuteMove(cmd)
    \/ SendCompletes(1)
    \/ Resume(1)
    \/ Abort(1)
    \/ UpdateAll
    \/ UpdatePending
    \/ UpdateObserve
    \/ Dispatch
    \/ Timeout

InitSpecMoves == InitWorld /\ InitTask({0}) /\ InitSession /\ InitNav /\ InitDepots /\ InitRouted /\ InitSched /\ InitQuarry /\ InitFilling /\ InitBuild

SpecMoves == InitSpecMoves /\ [][NextMoves]_vars

\* ------------------------------------------------------------------ progress specification
\* The callers of the session specification, issuing turns, under the
\* scheduling the server runs with: the robot keeps posting updates and every
\* handler it has entered returns; updateAll requests do not come between all
\* of its updates for ever (strong fairness of UpdateObserve, written out:
\* UpdateObserve is enabled exactly when the session is idle with the flag
\* clear, and it is the one step from "idle" to "recv"); tokio wakes the sender
\* that was given the freed slot of the inbox.
ObserveFairness ==
    \/ <>[](~(sess = "idle" /\ ~turtle.pending_update))
    \/ []<><<sess = "idle" /\ sess' = "recv">>_vars

NextLive ==
    \/ \E c \in Callers : Execute(c, Command("Left", 0))
    \/ \E c \in Callers : SendCompletes(c) \/ Resume(c) \/ Abort(c)
    \/ UpdateAll
    \/ UpdatePending
    \/ UpdateObserve
    \/ Dispatch
    \/ Timeout

InitSpecLive == InitWorld /\ InitTask({0}) /\ InitSession /\ InitNav /\ InitDepots /\ InitRouted /\ InitSched /\ InitQuarry /\ InitFilling /\ InitBuild

SpecLive ==
    /\ InitSpecLive
    /\ [][NextLive]_vars
    /\ WF_vars(UpdatePending)
    /\ ObserveFairness
    /\ WF_vars(Dispatch)
    /\ WF_vars(Timeout)
    /\ \A c \in Callers : WF_vars(SendCompletes(c))

\* ------------------------------------------------------------------ goto specification
\* the cells goto_adjacent is called for
AdjacentTargets == {<< x, 0, 0 >> : x \in 0 .. GotoMax + 1} \cup {<< 0, 1, 0 >>}

\* goto(target) or goto_adjacent(cell) called with the turtle at any position
InitGoto ==
    nav \in {goto_enter("goto", r, t) : r \in GotoPositions, t \in GotoPositions}
           \cup {goto_enter("goto_adjacent", r, c) : r \in GotoPositions, c \in AdjacentTargets}

GotoLoop ==
    /\ nav.pc = "loop"
    /\ nav' \in goto_loop(nav)
    /\ UNCHANGED exceptNav

GotoStep ==
    /\ nav.pc = "route"
    /\ \E occupied \in BOOLEAN, garbage \in BOOLEAN : nav' \in goto_step(nav, occupied, garbage)
    /\ UNCHANGED exceptNav

NextGoto == GotoLoop \/ GotoStep

InitSpecGoto == InitWorld /\ InitTask({0}) /\ InitSession /\ InitGoto /\ InitDepots /\ InitRouted /\ InitSched /\ InitQuarry /\ InitFilling /\ InitBuild

SpecGoto == InitSpecGoto /\ [][NextGoto]_vars

\* ------------------------------------------------------------------ depot specification
\* nearest(turtle.pos()) called (by dock, or directly) from a robot's task
Nearest(r) ==
    /\ docker[r].pc = "idle"
    /\ docker' = [docker EXCEPT ![r] = [NoDock EXCEPT !.pc = "acquire",
                                                      !.pos = TurtlePositions[r]]]
    /\ UNCHANGED << depots, exceptDepots >>

\* depot_semaphore.acquire_owned().await returns
Acquire(r) ==
    /\ docker[r].pc = "acquire"
    /\ depots.permits > 0
    /\ depots' = [depots EXCEPT !.permits = @ - 1]
    /\ docker' = [docker EXCEPT ![r].pc = "lock"]
    /\ UNCHANGED exceptDepots

\* self.depots.lock().await returns
LockDepots(r) ==
    /\ docker[r].pc = "lock"
    /\ depots.guard = 0
    /\ depots' = [depots EXCEPT !.guard = r]
    /\ docker' = [docker EXCEPT ![r].pc = "scan", ![r].i = 1]
    /\ UNCHANGED exceptDepots

\* the iterator yields the next depot
Scan(r) ==
    /\ docker[r].pc = "scan"
    /\ docker[r].i <= Len(depots.list)
    /\ LET scanned == scan_step(depots, docker[r], r)
       IN  /\ depots' = scanned[1]
           /\ docker' = [docker EXCEPT ![r] = scanned[2]]
    /\ UNCHANGED exceptDepots

\* the iterator is exhausted: the statement ends (depots unlocked), then
\* mutex.unwrap() panics, dropping the permit, or the guard is returned
ScanEnd(r) ==
    /\ docker[r].pc = "scan"
    /\ docker[r].i > Len(depots.list)
    /\ IF docker[r].best = 0
       THEN /\ depots' = drop_semaphore([depots EXCEPT !.guard = 0])
            /\ docker' = [docker EXCEPT ![r].pc = "panic"]
       ELSE /\ depots' = [depots EXCEPT !.guard = 0]
            /\ docker' = [docker EXCEPT ![r] = [NoDock EXCEPT !.pc = "leased",
                                                              !.depot = docker[r].best]]
    /\ UNCHANGED exceptDepots

\* the guard starts to drop: drop(depot) in dock ("docked"), goto(..)? returning
\* None ("failed"), or the task aborted while it holds the guard ("aborted")
DropGuard(r, how) ==
    /\ docker[r].pc = "leased"
    /\ depots' = drop_mutex(depots, docker[r])
    /\ docker' = [docker EXCEPT ![r] = [NoDock EXCEPT !.pc = "drop", !.how = how]]
    /\ UNCHANGED exceptDepots

\* the second field of the guard is dropped
DropPermit(r) ==
    /\ docker[r].pc = "drop"
    /\ depots' = drop_semaphore(depots)
    /\ docker' = [docker EXCEPT ![r] = NoDock]
    /\ UNCHANGED exceptDepots

\* the task is aborted while nearest waits: for a permit (it holds nothing),
\* or for depots.lock() (it holds the permit)
AbortWaiting(r) ==
    /\ docker[r].pc \in {"acquire", "lock"}
    /\ depots' = IF docker[r].pc = "lock" THEN drop_semaphore(depots) ELSE depots
    /\ docker' = [docker EXCEPT ![r] = NoDock]
    /\ UNCHANGED exceptDepots

\* add(pos), its first statement: the depot is pushed under depots.lock()
AddPush(pos) ==
    /\ Len(depots.list) < MaxDepots
    /\ depots.guard = 0
    /\ depots' = [depots EXCEPT !.list = Append(@, pos), !.locks = Append(@, 0),
                                !.owed = @ + 1]
    /\ UNCHANGED << docker, exceptDepots >>

\* add(pos), its second statement: depot_semaphore.add_permits(1)
AddPermit ==
    /\ depots.owed > 0
    /\ depots' = [drop_semaphore(depots) EXCEPT !.owed = @ - 1]
    /\ UNCHANGED << docker, exceptDepots >>

NextDepots ==
    \/ \E r \in Robots : Nearest(r)
    \/ \E r \in Robots : Acquire(r)
    \/ \E r \in Robots : LockDepots(r)
    \/ \E r \in Robots : Scan(r)
    \/ \E r \in Robots : ScanEnd(r)
    \/ \E r \in Robots, how \in {"docked", "failed", "aborted"} : DropGuard(r, how)
    \/ \E r \in Robots : DropPermit(r)
    \/ \E r \in Robots : AbortWaiting(r)
    \/ \E pos \in AddedDepots : AddPush(pos)
    \/ AddPermit

InitSpecDepots == InitWorld /\ InitTask({0}) /\ InitSession /\ InitNav /\ InitDepots /\ InitRouted /\ InitSched /\ InitQuarry /\ InitFilling /\ InitBuild

SpecDepots == InitSpecDepots /\ [][NextDepots]_vars

\* ------------------------------------------------------------------ depot progress
\* dock calls that are not aborted: every guard is dropped by drop(depot) or
\* by goto(..)? returning None
NextDock ==
    \/ \E r \in Robots : Nearest(r)
    \/ \E r \in Robots : Acquire(r)
    \/ \E r \in Robots : LockDepots(r)
    \/ \E r \in Robots : Scan(r)
    \/ \E r \in Robots : ScanEnd(r)
    \/ \E r \in Robots, how \in {"docked", "failed"} : DropGuard(r, how)
    \/ \E r \in Robots : DropPermit(r)

InitSpecDock == InitWorld /\ InitTask({0}) /\ InitSession /\ InitNav /\ InitDepots /\ InitRouted /\ InitSched /\ InitQuarry /\ InitFilling /\ InitBuild

\* tokio's Semaphore and Mutex hand a freed permit or lock to the oldest
\* waiter, so a waiter that could proceed again and again does (SF); the
\* synchronous steps of a polled task are taken (WF); a robot that holds a
\* lease finishes its dock protocol (WF on the drop of its guard)
SpecDock ==
    /\ InitSpecDock
    /\ [][NextDock]_vars
    /\ \A r \in Robots :
          /\ SF_vars(Acquire(r))
          /\ SF_vars(LockDepots(r))
          /\ WF_vars(Scan(r))
          /\ WF_vars(ScanEnd(r))
          /\ WF_vars(\E how \in {"docked", "failed"} : DropGuard(r, how))
          /\ WF_vars(DropPermit(r))

\* ------------------------------------------------------------------ route specification
BEDROCK == "minecraft:bedrock"

\* the blocks the robots have reported, and where: the last cell of one chunk
\* and the first of the next, and the cell above
PathNames == {AIR, STONE, BEDROCK}
PathCells == {<< CHUNK_SIZE - 1, 0, 0 >>, << CHUNK_SIZE, 0, 0 >>, << CHUNK_SIZE, 1, 0 >>}

\* the arguments of the route calls
PathStarts == {Position(<< CHUNK_SIZE - 1, 0, 0 >>, "East"), Position(<< CHUNK_SIZE, 0, 0 >>, "North")}
PathGoals == {Position(c, d) : c \in PathCells, d \in {"East", "North"}}

\* route(from, to) called on the world as it is, and what it returns
Route(from, to) ==
    /\ routed = NoRoute
    /\ routed' \in {[mode |-> "route", from |-> from, to |-> to.pos, dir |-> to.dir,
                      searched |-> r.searched, result |-> r.result] : r \in route(from, to, world)}
    /\ UNCHANGED exceptRouted

\* route_facing(from, to) called on the world as it is, and what it returns
RouteFacing(from, to) ==
    /\ routed = NoRoute
    /\ routed' \in {[mode |-> "route_facing", from |-> from, to |-> to, dir |-> from.dir,
                      searched |-> r.searched, result |-> r.result] :
                         r \in route_facing(from, to, world)}
    /\ UNCHANGED exceptRouted

\* the sets before the call, then the call
NextPaths ==
    \/ routed = NoRoute /\ \E cell \in PathCells, name \in PathNames : Set(cell, name)
    \/ \E from \in PathStarts, to \in PathGoals : Route(from, to)
    \/ \E from \in PathStarts, to \in PathCells : RouteFacing(from, to)

InitSpecPaths ==
    InitWorld /\ InitTask({0}) /\ InitSession /\ InitNav /\ InitDepots /\ InitRouted /\ InitSched /\ InitQuarry /\ InitFilling /\ InitBuild

SpecPaths == InitSpecPaths /\ [][NextPaths]_vars

\* ------------------------------------------------------------------ detour specification
\* The robots have reported a line of cells from (0,0,0) to (CHUNK_SIZE,0,0)
\* and the row above it: the row is air, the cells between the ends of the
\* line are of one name.  The sets are made in this order, the last two in the
\* second chunk.
DetourSets(name) ==
    << [pos |-> << 0, 0, 0 >>, name |-> AIR] >>
    \o [i \in 1 .. CHUNK_SIZE - 1 |-> [pos |-> << i, 0, 0 >>, name |-> name]]
    \o [i \in 1 .. CHUNK_SIZE |-> [pos |-> << i - 1, 1, 0 >>, name |-> AIR]]
    \o << [pos |-> << CHUNK_SIZE, 1, 0 >>, name |-> AIR],
          [pos |-> << CHUNK_SIZE, 0, 0 >>, name |-> AIR] >>

\* the World after these sets, and the name set last on each cell
World_after(sets) ==
    LET F[k \in 0 .. Len(sets)] ==
            IF k = 0 THEN World_new ELSE World_set(F[k - 1], sets[k])
    IN  F[Len(sets)]

written_after(sets) ==
    [c \in {sets[k].pos : k \in DOMAIN sets} |->
        sets[CHOOSE k \in DOMAIN sets :
                /\ sets[k].pos = c
                /\ \A j \in DOMAIN sets : sets[j].pos = c => j <= k].name]

InitDetourWorld ==
    \E name \in {AIR, STONE} :
        /\ world = World_after(DetourSets(name))
        /\ written = written_after(DetourSets(name))

\* further reports, of cells of the second chunk
DetourCells == {<< CHUNK_SIZE, 0, 0 >>, << CHUNK_SIZE, 1, 0 >>, << CHUNK_SIZE + 1, 0, 0 >>}

\* the arguments of the route calls
DetourStarts == {Position(<< 0, 0, 0 >>, "East"), Position(<< CHUNK_SIZE - 2, 0, 0 >>, "East")}
DetourGoals == {Position(<< CHUNK_SIZE, 0, 0 >>, "East"), Position(<< CHUNK_SIZE, 1, 0 >>, "East")}

\* route(from, to) called on the world as it is, and what it returns
DetourRoute(from, to) ==
    /\ routed = NoRoute
    /\ routed' \in {[mode |-> "route", from |-> from, to |-> to.pos, dir |-> to.dir,
                      searched |-> r.searched, result |-> r.result] :
                         r \in route_within(from, to, world, MaxDetour)}
    /\ UNCHANGED exceptRouted

NextDetour ==
    \/ routed = NoRoute /\ \E cell \in DetourCells, name \in {AIR, STONE} : Set(cell, name)
    \/ \E from \in DetourStarts, to \in DetourGoals : DetourRoute(from, to)

InitSpecDetour ==
    InitDetourWorld /\ InitTask({0}) /\ InitSession /\ InitNav /\ InitDepots /\ InitRouted /\ InitSched /\ InitQuarry /\ InitFilling /\ InitBuild

SpecDetour == InitSpecDetour /\ [][NextDetour]_vars

\* ------------------------------------------------------------------ fill specification
\* (0 .. scale.product()).map(|n| fill(scale, n)), as mine_chunk, the builders
\* and tests::many call it: the boxes, and the walk index by index
Scales == {<< x, y, z >> : x \in 1 .. MaxSide, y \in 1 .. MaxSide, z \in 1 .. MaxSide}

InitFill ==
    filling \in {[scale |-> sc, n |-> 0, prev |-> fill(sc, 0), at |-> fill(sc, 0), seen |-> {}] :
                    sc \in Scales}

FillNext ==
    /\ filling.n + 1 < product(filling.scale)
    /\ filling' = [filling EXCEPT !.n = @ + 1, !.prev = filling.at,
                                  !.at = fill(filling.scale, filling.n + 1),
                                  !.seen = @ \cup {filling.at}]
    /\ UNCHANGED exceptFilling

NextFill == FillNext

InitSpecFill ==
    InitWorld /\ InitTask({0}) /\ InitSession /\ InitNav /\ InitDepots /\ InitRouted /\ InitSched /\ InitQuarry /\ InitFill /\ InitBuild

SpecFill == InitSpecFill /\ [][NextFill]_vars

\* ------------------------------------------------------------------ scheduler specification
TurtleNames == 1 .. NumTurtles

\* turtle.pos() of the robot of each name, and the hints of the Ready tasks
SchedPositions == [n \in TurtleNames |-> << 4 * (n - 1), 0, 0 >>]
Hints == {<< 3, 0, 0 >>}
Outcomes == {Waiting, Complete} \cup {Ready(h) : h \in Hints}

\* add_turtle called for a robot: the robots connect in the order of their
\* names, and each may connect again
AddTurtle(name) ==
    /\ name <= Len(sched.turtles) + 1
    /\ sched' = [add_turtle(sched, name) EXCEPT !.ret = None]
    /\ cycle' = NoCycle
    /\ UNCHANGED exceptSched

AddTask ==
    /\ sched.added < MaxTasks
    /\ sched' = [add_task(sched, sched.added + 1) EXCEPT !.added = @ + 1, !.ret = None]
    /\ cycle' = NoCycle
    /\ UNCHANGED exceptSched

\* one call of Scheduler::poll
Poll(outcomes) ==
    /\ LET r == Scheduler_poll(sched, outcomes,
                   [i \in DOMAIN sched.turtles |-> SchedPositions[sched.turtles[i].name]])
       IN  /\ sched' = [r[1] EXCEPT !.ret = None]
           /\ cycle' = r[2]
    /\ UNCHANGED exceptSched

\* task_on or do_on called for the robot of this name
TaskOn(name) ==
    /\ sched' = task_on(sched, name)
    /\ cycle' = NoCycle
    /\ UNCHANGED exceptSched

SchedCancel(name) ==
    /\ sched' = [Scheduler_cancel(sched, name) EXCEPT !.ret = None]
    /\ cycle' = NoCycle
    /\ UNCHANGED exceptSched

SchedShutdown ==
    /\ Len(sched.receivers) < MaxShutdowns
    /\ sched' = [Scheduler_shutdown(sched) EXCEPT !.ret = None]
    /\ cycle' = NoCycle
    /\ UNCHANGED exceptSched

\* the future spawned on the robot returns or panics, or, aborted, is dropped
TaskEnds(name) ==
    /\ LET i == find_turtle(sched, name)
       IN  /\ i /= 0
           /\ sched.turtles[i].slot \in {Some("running"), Some("aborting")}
           /\ sched' = [sched EXCEPT !.turtles[i].slot = Some("finished"),
                                     !.running[name] = @ - 1, !.ret = None]
    /\ cycle' = NoCycle
    /\ UNCHANGED exceptSched

NextSched ==
    \/ \E name \in TurtleNames : AddTurtle(name)
    \/ AddTask
    \/ \E outcomes \in [DOMAIN sched.tasks -> Outcomes] : Poll(outcomes)
    \/ \E name \in TurtleNames : TaskOn(name)
    \/ \E name \in TurtleNames : SchedCancel(name)
    \/ \E name \in TurtleNames : TaskEnds(name)

InitSpecSched ==
    InitWorld /\ InitTask({0}) /\ InitSession /\ InitNav /\ InitDepots /\ InitRouted /\ InitSched /\ InitQuarry /\ InitFilling /\ InitBuild

SpecSched == InitSpecSched /\ [][NextSched]_vars

\* the scheduler with shutdown() called as well
NextShutdown ==
    \/ NextSched
    \/ SchedShutdown

InitSpecShutdown ==
    InitWorld /\ InitTask({0}) /\ InitSession /\ InitNav /\ InitDepots /\ InitRouted /\ InitSched /\ InitQuarry /\ InitFilling /\ InitBuild

SpecShutdown == InitSpecShutdown /\ [][NextShutdown]_vars

\* C22: in a poll cycle a task that reports Ready(hint) is started on the
\* robot that, of the robots free at that moment of the cycle, has the least
\* L1 distance from its position to hint; that robot then leaves the free
\* pool, so no robot is given two tasks in one cycle
C22_ReadyGoesToClosestFree ==
    \A k \in DOMAIN cycle.started :
        LET e == cycle.started[k]
        IN  /\ e.turtle \in e.free
            /\ e.turtle \in cycle.idle
            /\ \A n \in e.free :
                   AbsSum(VSub(SchedPositions[e.turtle], e.hint))
                       <= AbsSum(VSub(SchedPositions[n], e.hint))
            /\ \A j \in 1 .. k - 1 :
                   /\ cycle.started[j].turtle /= e.turtle
                   /\ cycle.started[j].turtle \notin e.free

\* two tasks were Ready in one cycle: the first went to the nearer robot,
\* which is not the first of the list, the second to the other
C22_TwoReadyInOneCycle ==
    /\ Len(cycle.started) = 2
    /\ cycle.started[1].turtle = 2
    /\ cycle.started[2].turtle = 1
    /\ cycle.started[1].free = {1, 2}

\* C23: in a poll cycle with no shutdown in progress each task of the list is
\* polled once in list order, and every task that would report Complete is
\* removed by the end of the cycle, also when no robot is free; a task that
\* reports Ready or Waiting is never removed
C23_EveryTaskPolledAndCompleteRemoved ==
    ~cycle.shut =>
        /\ cycle.polled = cycle.tasks
        /\ \A i \in DOMAIN cycle.tasks :
               (cycle.outcomes[i] = Complete)
                   <=> ~(\E j \in DOMAIN sched.tasks : sched.tasks[j] = cycle.tasks[i])

C25_EveryReceiverSignalledOnce ==
    /\ \A k \in DOMAIN sched.receivers :
           /\ ~sched.receivers[k].closed
           /\ sched.receivers[k].signals <= 1
    /\ cycle.sent => cycle.idle = {sched.turtles[i].name : i \in DOMAIN sched.turtles}

\* ------------------------------------------------------------------ quarry specification
\* One Quarry is the only task of the scheduler; the robots are the workers,
\* and guard[w] is the ChunkedTaskGuard the future running on w holds.  pc[w]
\* is where that future is: "idle" (none), "spawned" (not yet run), "mining"
\* (in mine_chunk_and_sweep, holding its guard).
QuarryUppers == {<< 4 * n, 4, 4 >> : n \in 1 .. MaxChunks}
Miners == 1 .. NumMiners
QuarryPositions == [w \in Workers |-> << 4 * (w - 1), 0, 0 >>]

\* add_task(Box::new(Quarry::new(lower, upper)))
InitQuarryTask ==
    /\ quarry \in {Quarry_new(VZero, u) : u \in QuarryUppers}
    /\ task = ChunkedTask_new(Quarry_parts(quarry.pos, VAdd(quarry.pos, quarry.size)))
    /\ guard = [w \in Workers |-> None]
    /\ pc = [w \in Workers |-> "idle"]
    /\ loc = [w \in Workers |-> NoLoc]
    /\ issued = {}
    /\ finished = {}
    /\ cancelled = {}
    /\ lastCall = NoCall
    /\ calls = NoCalls
    /\ sched = [add_task(Scheduler_default, 1) EXCEPT !.added = 1]
    /\ cycle = NoCycle

\* a robot connects
QuarryAddTurtle(w) ==
    /\ AddTurtle(w)

\* Scheduler::cancel for a robot
QuarryCancel(w) ==
    /\ SchedCancel(w)

\* one call of Scheduler::poll: the quarry, if still in the list, is polled,
\* and run spawns a future on the robot chosen
QuarryPoll ==
    /\ quarry.miners < MaxPolls
    /\ LET p == Quarry_poll(quarry, task)
           outcomes == [i \in DOMAIN sched.tasks |-> p.state]
           r == Scheduler_poll(sched, outcomes,
                   [i \in DOMAIN sched.turtles |-> QuarryPositions[sched.turtles[i].name]])
           started == {r[2].started[k].turtle : k \in DOMAIN r[2].started}
       IN  /\ sched' = [r[1] EXCEPT !.ret = None]
           /\ cycle' = r[2]
           /\ quarry' = IF sched.tasks = << >> THEN quarry ELSE p.quarry
           /\ pc' = [w \in Workers |-> IF w \in started THEN "spawned" ELSE pc[w]]
    /\ UNCHANGED << task, guard, issued, finished, cancelled, exceptQuarry >>

\* the future on w runs to its await: next_chunk, and return when that is None
QuarryStart(w) ==
    /\ pc[w] = "spawned"
    /\ slot_of(sched, w) = Some("running")
    /\ LET r == next_chunk(task)
       IN  /\ task' = r.task
           /\ issued' = issued \cup {r.ret[i] : i \in DOMAIN r.ret}
           /\ IF IsSome(r.ret)
              THEN /\ guard' = [guard EXCEPT ![w] = Some(with_task(Unwrap(r.ret)))]
                   /\ pc' = [pc EXCEPT ![w] = "mining"]
                   /\ sched' = [sched EXCEPT !.ret = None]
                   /\ quarry' = [quarry EXCEPT !.how[w] = "none"]
              ELSE /\ guard' = guard
                   /\ pc' = [pc EXCEPT ![w] = "idle"]
                   /\ sched' = [future_ends(sched, w) EXCEPT !.ret = None]
                   /\ quarry' = [quarry EXCEPT !.how[w] = "none"]
    /\ cycle' = NoCycle
    /\ UNCHANGED << finished, cancelled, exceptQuarry >>

\* mine_chunk_and_sweep returns (Some when ok); finish() or cancel(),
\* miners.fetch_sub(1), and the future returns
QuarryMined(w, ok) ==
    /\ pc[w] = "mining"
    /\ slot_of(sched, w) = Some("running")
    /\ task' = IF ok THEN Guard_finish(task, held(w)) ELSE Guard_cancel(task, held(w))
    /\ guard' = [guard EXCEPT ![w] = None]
    /\ finished' = IF ok THEN finished \cup {held(w).chunk} ELSE finished
    /\ cancelled' = IF ok THEN cancelled ELSE cancelled \cup {held(w).chunk}
    /\ quarry' = fetch_sub_miners(quarry)
    /\ pc' = [pc EXCEPT ![w] = "idle"]
    /\ sched' = [future_ends(sched, w) EXCEPT !.ret = None]
    /\ cycle' = NoCycle
    /\ UNCHANGED << issued, exceptQuarry >>

\* the future on w ends without returning: it panics in mine_chunk_and_sweep,
\* or, abort() called, it is dropped at its await or before it ever ran; the
\* guard it holds is dropped with it
QuarryDropped(w, how) ==
    /\ \/ how = "panicked" /\ pc[w] = "mining" /\ slot_of(sched, w) = Some("running")
       \/ how = "aborted" /\ pc[w] \in {"spawned", "mining"}
                          /\ slot_of(sched, w) = Some("aborting")
    /\ task' = IF guard[w] /= None THEN Guard_drop(task, held(w)) ELSE task
    /\ guard' = [guard EXCEPT ![w] = None]
    /\ cancelled' = cancelled \cup {guard[w][i].chunk : i \in DOMAIN guard[w]}
    /\ quarry' = [quarry EXCEPT !.how[w] = how]
    /\ pc' = [pc EXCEPT ![w] = "idle"]
    /\ sched' = [future_ends(sched, w) EXCEPT !.ret = None]
    /\ cycle' = NoCycle
    /\ UNCHANGED << issued, finished, exceptQuarry >>

NextQuarry ==
    \/ \E w \in Miners : QuarryAddTurtle(w)
    \/ \E w \in Miners : QuarryCancel(w)
    \/ QuarryPoll
    \/ \E w \in Miners : QuarryStart(w)
    \/ \E w \in Miners, ok \in BOOLEAN : QuarryMined(w, ok)
    \/ \E w \in Miners, how \in {"panicked", "aborted"} : QuarryDropped(w, how)

InitSpecQuarry ==
    InitWorld /\ InitQuarryTask /\ InitSession /\ InitNav /\ InitDepots /\ InitRouted /\ InitFilling /\ InitBuild

SpecQuarry == InitSpecQuarry /\ [][NextQuarry]_vars

\* the robots registered with the scheduler, and the indices in the cancel queue
Registered_robots(s) == {s.turtles[i].name : i \in DOMAIN s.turtles}
requeued(t) == {t.canceled[i] : i \in DOMAIN t.canceled}

\* C26: a run future that panicked or was aborted counts as finished: the
\* guard it held is dropped and its index back in the cancel queue when the
\* handle reports finished, and the next poll empties the slot and has the
\* robot among those it may assign
C26_PanicReclaimedAndRequeued ==
    /\ [](\A w \in Registered_robots(sched) :
            slot_of(sched, w) \in {None, Some("finished")} => guard[w] = None)
    /\ [][\A w \in Workers :
            (guard[w] /= None /\ quarry'.how[w] \in {"panicked", "aborted"}
                /\ quarry.how[w] = "none")
                => /\ guard'[w] = None
                   /\ slot_of(sched', w) = Some("finished")
                   /\ held(w).chunk \in requeued(task')]_vars
    /\ [][\A w \in Registered_robots(sched) :
            (cycle'.made /\ slot_of(sched, w) = Some("finished"))
                => /\ w \in cycle'.idle
                   /\ slot_of(sched', w) \in {None, Some("running")}
                   /\ slot_of(sched', w) = Some("running")
                          <=> \E k \in DOMAIN cycle'.started : cycle'.started[k].turtle = w]_vars

\* the future of a robot panicked holding a guard, and the poll just made
\* started the quarry on that robot again
C26_PanickedRobotStartedAgain ==
    \E w \in Workers :
        /\ quarry.how[w] = "panicked"
        /\ pc[w] = "spawned"
        /\ \E k \in DOMAIN cycle.started : cycle.started[k].turtle = w

\* C27: with every mining run succeeding (no guard ended without finish), a
\* poll of the quarry reports Complete only when every chunk index in [0, N)
\* has been leased and finished
C27_CompleteOnlyWhenAllFinished ==
    (cancelled = {} /\ cycle.made) =>
        \A i \in DOMAIN cycle.outcomes :
            cycle.outcomes[i] = Complete =>
                /\ issued = 0 .. task.max - 1
                /\ finished = 0 .. task.max - 1

\* ------------------------------------------------------------------ unregistered ids
\* Updates arrive for the registered turtle and for ids that are not
\* registered, while one task turns the turtle.
NextIds ==
    \/ \E id \in UnregisteredIds : UpdateUnregistered(id)
    \/ ExecuteMove(Command("Left", 0))
    \/ Resume(1)
    \/ UpdateAll
    \/ UpdatePending
    \/ UpdateObserve
    \/ Dispatch
    \/ Timeout

InitSpecIds == InitWorld /\ InitTask({0}) /\ InitSession /\ InitNav /\ InitDepots /\ InitRouted /\ InitSched /\ InitQuarry /\ InitFilling /\ InitBuild

SpecIds == InitSpecIds /\ [][NextIds]_vars

\* ------------------------------------------------------------------ observation specification
\* The same task, with the turtle registered one cell above the ground at the
\* east edge of the chunk at the origin.
ObserveStart == Position(<< 3, 1, 0 >>, "East")

InitSpecObserve == InitWorld /\ InitTask({0}) /\ InitSessionAt(ObserveStart) /\ InitNav /\ InitDepots /\ InitRouted /\ InitSched /\ InitQuarry /\ InitFilling /\ InitBuild

SpecObserve == InitSpecObserve /\ [][NextMoves]_vars

\* ------------------------------------------------------------------ claims
\* the name of the most recent set on cell, or None
LastWritten(cell) == IF cell \in DOMAIN written THEN Some(written[cell]) ELSE None

\* C1: after any sequence of World::set calls, World::get of every cell returns
\* the name of the most recent set on that cell, or None when it was never set.
C1_GetReturnsLastSet == \A c \in WorldCells : World_get(world, c) = LastWritten(c)

\* C1 (the failing case): a cell that was set reads as absent.
C1_KnownCellReadsAbsent ==
    \E c \in WorldCells : c \in DOMAIN written /\ World_get(world, c) = None

\* every index in [0, max)
Indices == 0 .. task.max - 1

\* the sequence q without its i-th element
RemoveAt(q, i) == SubSeq(q, 1, i - 1) \o SubSeq(q, i + 1, Len(q))

C4_ConfirmedHeadMax ==
    0 <= task.confirmed /\ task.confirmed <= task.head /\ task.head <= task.max

\* C5: done() is true only if every index in [0, max) has been handed out and
\* its guard ended with finish().
C5_DoneOnlyWhenAllFinished == done(task) => \A i \in Indices : i \in issued /\ i \in finished

\* C6: once every index in [0, max) has been finished and no guard is
\* outstanding, done() is true.
C6_AllFinishedIsDone ==
    ((\A i \in Indices : i \in finished) /\ (\A w \in Workers : guard[w] = None))
        => done(task)

\* C7: a guard that ends without finish() (cancel(), or dropped by scope end,
\* abort or panic) appends its index to the cancel queue exactly once; a guard
\* that ends with finish() leaves the queue as it was.
C7_RequeuedUnlessFinished ==
    [][\A w \in Workers :
        /\ (Cancel(w) \/ Drop(w)) => task'.canceled = Append(task.canceled, held(w).chunk)
        /\ Finish(w) => task'.canceled = task.canceled
      ]_vars

\* C7 witness: a guard was dropped and its index is the newest in the queue,
\* after another guard ended with finish().
C7_DroppedAfterFinish ==
    /\ lastCall.op = "drop"
    /\ finished /= {}
    /\ task.canceled /= << >>
    /\ Some(task.canceled[Len(task.canceled)]) = lastCall.chunk

\* C8: while a cancelled index i has not been finished, finishing an index
\* k > i does not raise confirmed to k.
C8_CancelledBlocksConfirmed ==
    [][\A w \in Workers : Finish(w) =>
        \A i \in cancelled \ finished :
            held(w).chunk > i =>
                ~(task.confirmed < held(w).chunk /\ task'.confirmed = held(w).chunk)
      ]_vars

\* C2: with workers interleaving the steps of next_chunk, finish and cancel/drop,
\* every index handed out lies in [0, max) and no two live guards hold the same
\* index.
C2_DisjointIndicesInRange ==
    /\ \A i \in issued : 0 <= i /\ i < task.max
    /\ \A w \in Workers : guard[w] /= None => held(w).chunk \in Indices
    /\ \A v, w \in Workers :
          (v /= w /\ guard[v] /= None /\ guard[w] /= None) => held(v).chunk /= held(w).chunk

\* C2 witness: two guards are live at once, one of them on an index that was
\* cancelled before and handed out again.
C2_TwoLiveGuardsOneReissued ==
    \E v, w \in Workers :
        /\ v /= w /\ pc[v] = "hold" /\ pc[w] = "hold"
        /\ held(v).chunk \in cancelled


\* the tokens of the commands sent to the robot whose completion was not sent yet
InFlight == {dispatched[i] : i \in DOMAIN dispatched} \ delivered

\* C9: the commands of successive execute calls reach the robot in call order,
\* at most one in each update handler and only as the closing step of one, and
\* a command is handed to the robot only when the completion of every command
\* handed out before it was sent to its caller (or found abandoned).
C9_DispatchInCallOrder ==
    [][dispatched' /= dispatched =>
          /\ sess = "recv" /\ sess' = "idle"
          /\ Len(dispatched') = Len(dispatched) + 1
          /\ SubSeq(dispatched', 1, Len(dispatched)) = dispatched
          /\ \A i \in DOMAIN dispatched :
                /\ dispatched[i] < dispatched'[Len(dispatched')]
                /\ dispatched[i] \in delivered]_vars

\* C9 witness: the second caller blocked in send behind the first one's command,
\* and both commands have reached the robot
C9_BlockedCallerDispatchedSecond ==
    /\ Len(dispatched) >= 2
    /\ \E c \in Callers : caller[c].pc = "awaiting" /\ caller[c].tok = dispatched[2]
                          /\ caller[c].reply = None
    /\ dispatched[1] \in delivered
    /\ senders /= << >>

\* C10: at most one command was handed to the robot without its completion
\* having been sent; the session's callback is that command's completion and
\* is empty otherwise, and it is empty whenever the session waits on the inbox
\* for the next command.
C10_OneCommandInFlight ==
    /\ Cardinality(InFlight) <= 1
    /\ turtle.callback = None <=> InFlight = {}
    /\ \A tok \in InFlight : turtle.callback = Some(tok)
    /\ sess = "recv" => turtle.callback = None /\ InFlight = {}

\* C10 witness: the session waits on the inbox with the next command already
\* queued, having just completed the previous one
C10_NextQueuedWhilePreviousCompleted ==
    /\ sess = "recv"
    /\ inbox /= << >>
    /\ dispatched /= << >>
    /\ dispatched[Len(dispatched)] \in delivered
    /\ \E c \in Callers : caller[c].pc = "awaiting" /\ caller[c].reply /= None

\* C11: the reply an execute caller receives carries the ret the robot
\* reported for that very command, whatever updates, other callers and
\* updateAll requests interleave while the command is in flight.
C11_ReplyCarriesCommandResult ==
    \A c \in Callers :
        caller[c].reply /= None =>
            /\ caller[c].tok \in DOMAIN reported
            /\ Unwrap(caller[c].reply).ret = reported[caller[c].tok]

\* the robot's true position
TruePosition == Position(robot.pos, robot.dir)

\* a step in which process_turtle_update takes up an update of the robot
TakesUpdate ==
    /\ sess = "idle"
    /\ sess' = "recv" \/ (turtle.pending_update /\ ~turtle'.pending_update)

\* the facing turns only when Left or Right is dispatched
TurnsOnlyOnDispatch ==
    turtle'.position.dir /= turtle.position.dir =>
        /\ dispatched' /= dispatched
        /\ answer' \in {Some(Command("Left", 0)), Some(Command("Right", 0))}

\* a fuel drop of d moves the stored cell by queued unit x d and clears the
\* queued unit; no fuel drop leaves the cell unchanged
AttributesDrop ==
    IF turtle.fuel > robot.fuel
    THEN /\ turtle'.position.pos =
                VAdd(turtle.position.pos, VScale(turtle.queued_movement, turtle.fuel - robot.fuel))
         /\ turtle'.queued_movement = VZero
    ELSE turtle'.position.pos = turtle.position.pos

ReadsBack(w, info) ==
    << World_get(w, VAdd(info.pos.pos, unit(info.pos.dir))),
       World_get(w, VAdd(info.pos.pos, VY)),
       World_get(w, VSub(info.pos.pos, VY)) >>

\* C13: when the reply of the in-flight command is delivered, the three
\* observations of that update are already in the World store at
\* cell + unit(facing), cell + y, cell - y of the position after fuel
\* attribution: the caller the reply resumes reads all three.
C13_ReplyReadsObservations ==
    [][\A c \in Callers :
          (caller[c].reply = None /\ caller'[c].reply /= None) =>
              LET info == Unwrap(caller'[c].reply)
              IN  ReadsBack(world', info) =
                     << Some(info.ahead), Some(info.above), Some(info.below) >>]_vars

\* the name the store holds for cell, read through the index alone
Stored(w, cell) ==
    LET i == index_get(w, chunk_coords(cell))
    IN  IF IsSome(i) THEN Chunk_get(w.data[Unwrap(i)], cell) ELSE None

\* no execute call has a command waiting or in flight
NoCommandPending == inbox = << >> /\ senders = << >> /\ turtle.callback = None

\* a step in which the command handler answers an update of the robot
AnswersUpdate ==
    \/ sess = "recv" /\ sess' = "idle"
    \/ sess = "idle" /\ turtle.pending_update /\ ~turtle'.pending_update

\* C14: with no caller command pending every robot update, the first one after
\* registration included, is answered with Wait(IDLE_TIME), leaves the stored
\* fuel and position as they were when the reported fuel is the stored one,
\* and records the three observations in the World store.
C14_IdleUpdateAnsweredWithWait ==
    [][/\ (NoCommandPending /\ AnswersUpdate) => answer' = Some(Command("Wait", IDLE_TIME))
       /\ (NoCommandPending /\ TakesUpdate) =>
              LET update == robot_update(robot)
                  cell == turtle'.position.pos
              IN  /\ robot.fuel = turtle.fuel =>
                        turtle'.fuel = turtle.fuel /\ turtle'.position = turtle.position
                  /\ Stored(world', VAdd(cell, unit(turtle'.position.dir))) = Some(update.ahead)
                  /\ Stored(world', VAdd(cell, VY)) = Some(update.above)
                  /\ Stored(world', VSub(cell, VY)) = Some(update.below)]_vars

\* C15: an update for a robot id that is not registered, the id equal to the
\* number of registered robots included, is answered with ReloadCode (Update)
\* and changes no state.
C15_UnregisteredAnsweredReloadCode ==
    [][(asked' /= None /\ Unwrap(asked') \notin Registered
            /\ << answer, asked >>' /= << answer, asked >>) =>
          /\ answer' = Some(Command("Update", 0))
          /\ UNCHANGED << turtle, inbox, senders, sess, caller, commander, world >>]_vars

\* caller c is inside an execute call that has not been answered
Unanswered(c) ==
    \/ caller[c].pc = "sending"
    \/ caller[c].pc = "awaiting" /\ caller[c].reply = None

\* the tokens of the session's callback whose caller no longer awaits them
Abandoned == {k \in InFlight : \A c \in Callers : ~(caller[c].pc = "awaiting" /\ caller[c].tok = k)}

\* a call puts at most one command before the robot, and a reply is delivered
\* only for a command that was dispatched
OneDispatchPerCall ==
    /\ dispatched' /= dispatched =>
           \A i \in DOMAIN dispatched : dispatched[i] /= dispatched'[Len(dispatched')]
    /\ \A c \in Callers :
           (caller[c].reply = None /\ caller'[c].reply /= None) =>
               \E i \in DOMAIN dispatched : dispatched[i] = caller[c].tok

C17_GotoSuccessMeansArrived ==
    (nav.pc = "done" /\ nav.mode = "goto") =>
        (nav.result = "Some" <=> nav.recent = nav.target)

\* C18: whenever goto_adjacent(cell) returns a position p, cell is directly
\* ahead of, above or below p, and p.dig(cell) names a command; also when
\* commands fail and the attempts are used up.
C18_AdjacentResultFacesCell ==
    (nav.pc = "done" /\ nav.mode = "goto_adjacent" /\ nav.result = "Some") =>
        /\ faces(nav.recent, nav.target)
        /\ Position_dig(nav.recent, nav.target) /= None

\* the robots that hold a lease (a DepotGuard), and those that hold a permit
Leases == {r \in Robots : docker[r].pc = "leased"}
PermitHolders == {r \in Robots : docker[r].pc \in {"lock", "scan", "leased", "drop"}}

\* C19: with N registered depots and robots calling nearest / dock
\* concurrently, at most N leases are held and no two on the same depot; a
\* lease is released when its guard is dropped, also when dock fails or the
\* task is aborted: every held lock belongs to a lease or to the scan under
\* way, and every permit is in the semaphore, with a call, or owed by add.
C19_LeasesBoundedAndExclusive ==
    /\ Cardinality(Leases) <= Len(depots.list)
    /\ \A r1 \in Leases, r2 \in Leases : docker[r1].depot = docker[r2].depot => r1 = r2
    /\ \A r \in Leases : depots.locks[docker[r].depot] = r
    /\ \A i \in DOMAIN depots.locks :
          depots.locks[i] /= 0 =>
              LET r == depots.locks[i]
              IN  \/ r \in Leases /\ docker[r].depot = i
                  \/ docker[r].pc = "scan" /\ docker[r].best = i
    /\ depots.permits + Cardinality(PermitHolders) + depots.owed = Len(depots.list)

\* C19, its case: a guard dropped by a failed dock or an abort has released
\* its lock and still has its permit; every other permit is taken, a lease is
\* held and a robot waits for a permit
C19_DropAfterFailure ==
    /\ depots.permits = 0
    /\ Leases /= {}
    /\ \E r1 \in Robots, r3 \in Robots :
          /\ docker[r1].pc = "drop"
          /\ docker[r1].how \in {"failed", "aborted"}
          /\ docker[r3].pc = "acquire"

\* the depot a scan has kept is, of the depots it found free, one with the
\* least Manhattan distance to the caller
KeepsNearest(k) ==
    /\ k.free /= {} => k.best \in k.free
    /\ \A j \in k.free :
          Position_manhattan(depots.list[k.best], k.pos) <= Position_manhattan(depots.list[j], k.pos)

\* C20: whenever nearest has acquired a permit its scan finds a depot whose
\* lock is free (the unwrap never fails), for every interleaving of nearest
\* calls, lease drops and add calls; of the depots it found free it takes one
\* with the least Manhattan distance to the caller.
C20_ScanFindsNearestFree ==
    /\ [](\A r \in Robots : docker[r].pc /= "panic" /\ KeepsNearest(docker[r]))
    /\ [][\A r \in Robots :
            docker[r].pc = "scan" /\ docker'[r].pc /= "scan" =>
                /\ docker'[r].pc = "leased"
                /\ docker[r].free /= {}
                /\ docker'[r].depot = docker[r].best]_vars

\* C20, its case: after a depot was added, and while another lease is held, a
\* scan has come to its end having found two depots free and kept the nearer,
\* which is not the first
C20_TookNearerOfTwo ==
    \E r \in Robots :
        /\ docker[r].pc = "scan"
        /\ docker[r].i > Len(depots.list)
        /\ Leases /= {}
        /\ Cardinality(docker[r].free) >= 2
        /\ \E j \in docker[r].free : j < docker[r].best
        /\ Len(depots.list) > Len(StartDepots)

\* C21: with more robots calling dock than there are depots, and every robot
\* that holds a lease finishing its dock protocol, every call that waits for a
\* permit comes to hold a lease, and every lease is given back: no caller
\* waits forever.
C21_EveryDockCompletes ==
    \A r \in Robots :
        /\ (docker[r].pc = "acquire") ~> (docker[r].pc = "leased")
        /\ (docker[r].pc = "leased") ~> (docker[r].pc = "idle")

\* C21, its case: every depot is leased, no permit is left and a robot waits
\* for one
C21_WaitsWhileAllLeased ==
    /\ depots.permits = 0
    /\ Cardinality(Leases) = Len(depots.list)
    /\ \E r \in Robots : docker[r].pc = "acquire"

\* the cell is known in the World store with a name that is neither
\* transparent nor garbage
KnownSolid(cell) == cell \in DOMAIN written /\ difficulty(written[cell]) = None

\* the steps of the route returned, as pairs of successive positions
Steps(path) == {<< path[i], path[i + 1] >> : i \in 1 .. Len(path) - 1}

\* C28: no step of a route returned by route or route_facing enters a cell
\* that is known in the World store with a name that is neither transparent
\* nor garbage.
C28_RouteAvoidsKnownSolid ==
    routed.result /= None =>
        \A st \in Steps(Unwrap(routed.result)) :
            st[2].pos /= st[1].pos => ~KnownSolid(st[2].pos)

\* C29: a route returned by route(from, to) starts at from, ends at to, has
\* at least L1(from, to) steps, and each step is one of Left, Right,
\* Forward(1), Up(1), Down(1) by Position::difference, which applied to the
\* first position gives the second.
C29_RouteIsChainOfCommands ==
    (routed.mode = "route" /\ routed.result /= None) =>
        LET path == Unwrap(routed.result)
        IN  /\ path[1] = routed.from
            /\ path[Len(path)] = Position(routed.to, routed.dir)
            /\ Len(path) - 1 >= AbsSum(VSub(routed.from.pos, routed.to))
            /\ \A st \in Steps(path) :
                  LET c == Position_difference(st[1], st[2])
                  IN  /\ c \in {Some(Command("Left", 0)), Some(Command("Right", 0)),
                               Some(Command("Forward", 1)), Some(Command("Up", 1)),
                               Some(Command("Down", 1))}
                      /\ Command_apply(st[1], Unwrap(c)) = st[2]

\* C29, its case: a route of two steps, one of them up or down, was returned
C29_RouteClimbs ==
    /\ routed.mode = "route"
    /\ routed.result /= None
    /\ Len(Unwrap(routed.result)) = 3
    /\ \E st \in Steps(Unwrap(routed.result)) : st[2].pos[2] /= st[1].pos[2]

\* C30: route and route_facing return failure at once, without searching,
\* when the goal cell is known in the World store and its name is neither
\* transparent nor garbage.
C30_SolidGoalFailsAtOnce ==
    (routed.mode /= "none" /\ KnownSolid(routed.to)) =>
        (routed.result = None /\ ~routed.searched)

\* C31: the route returned by route(from, to) is step-minimal: no sequence of
\* the moves the neighbour relation allows reaches to from from in fewer
\* steps, also when cells of cost 2 lie on the shortest line and a longer
\* detour through transparent cells exists.
C31_RouteIsStepMinimal ==
    (routed.mode = "route" /\ routed.result /= None) =>
        \A other \in SearchFrom(<< routed.from >>, MaxDetour, "route",
                                 Position(routed.to, routed.dir), world) :
            Len(Unwrap(routed.result)) <= Len(other)

\* C32: for a box with positive sides, fill(scale, n) for n = 0 .. volume - 1
\* gives a cell of the box not given before (so, the box having volume cells,
\* every cell exactly once), and successive cells are at L1 distance 1.
C32_FillVisitsEachCellOnceAdjacent ==
    /\ \A i \in 1 .. 3 : filling.at[i] \in 0 .. filling.scale[i] - 1
    /\ filling.at \notin filling.seen
    /\ Cardinality(filling.seen) = filling.n
    /\ filling.n > 0 => AbsSum(VSub(filling.at, filling.prev)) = 1
    /\ filling.n + 1 = product(filling.scale) =>
           filling.seen \cup {filling.at} =
               {<< x, y, z >> : x \in 0 .. filling.scale[1] - 1, y \in 0 .. filling.scale[2] - 1,
                                z \in 0 .. filling.scale[3] - 1}

\* a box of odd and even sides walked to its last cell, through every turn
\* of row and of layer
C32_BoxWalkedToTheEnd ==
    /\ filling.scale = << 3, 2, 2 >>
    /\ filling.n = 11

\* C33: when no call is under way, the ChunkedTask is one that the calls made
\* so far, each returning what it returned, leave when made one at a time in
\* some order
C33_SomeSequentialOrder == quiescent /\ calls.on => task \in sequential_ends

\* C33 happens: a next_chunk returned a new index after another worker's drop
\* had queued one (the drop came between its queue poll and its fetch-add), so
\* the order of the returns is not a sequential order
C33_FreshIndexPastQueuedOne ==
    /\ quiescent /\ calls.on /\ Len(calls.log) >= 3
    /\ \E i \in 1 .. Len(calls.log) - 1 :
          /\ calls.log[i].op = "drop"
          /\ calls.log[i + 1].op = "next_chunk"
          /\ calls.log[i + 1].chunk /= calls.log[i].chunk
          /\ calls.log[i + 1].chunk /= None

\* C34: when execute returns for a command that is no movement and no turn,
\* the cached inventory is empty afterwards, whatever the response was
C34_NonMovementEmptiesInventory ==
    [][(/\ caller[1].pc = "awaiting"
        /\ caller'[1].pc = "idle"
        /\ caller[1].reply /= None
        /\ caller[1].cmd.op \notin {"Forward", "Backward", "Up", "Down", "Left", "Right"})
       => commander'.inventory = None]_vars

\* C34 (amended): when execute returns, the cached inventory is empty if the
\* response was Success and the command is none of Wait, Forward, Backward, Up,
\* Down, Left, Right; after any other response, and after those commands, it
\* is what it was
C34_SuccessOfOtherCommandsEmptiesInventory ==
    [][(/\ caller[1].pc = "awaiting"
        /\ caller'[1].pc = "idle"
        /\ caller[1].reply /= None)
       => commander'.inventory =
            IF /\ Unwrap(caller[1].reply).ret = "Success"
               /\ caller[1].cmd.op \notin
                    {"Wait", "Forward", "Backward", "Up", "Down", "Left", "Right"}
            THEN None
            ELSE commander.inventory]_vars

\* C34 happens: inventory() returned a snapshot and an execute that came
\* after it has emptied the cache
C34_SnapshotEmptiedByExecute ==
    /\ commander.scan.pc = "idle"
    /\ commander.scan.ret /= None
    /\ commander.inventory = None

\* C35: inventory() with a snapshot returns it and issues no command; without
\* one it issues SLOTS probes, stores the SLOTS entries and returns them; and no
\* probe's execute ever waits for the inventory lock that inventory() holds
C35_InventoryReturnsForEveryResponse ==
    /\ [](caller[1].pc /= "locking")
    /\ [][commander'.scan.made = commander.scan.made + 1 =>
            /\ commander'.scan.ret /= None
            /\ commander'.inventory = commander'.scan.ret
            /\ Len(Unwrap(commander'.scan.ret)) = SLOTS
            /\ IF IsSome(commander.inventory)
               THEN commander'.scan.ret = commander.inventory /\ ncalls' = commander'.scan.from
               ELSE ncalls' = commander'.scan.from + SLOTS]_vars

\* C36: once shutdown() has been called, no poll starts a task on a robot,
\* neither while robots are draining nor after the completion signal was sent
C36_NoStartAfterShutdown ==
    sched.receivers /= << >> /\ cycle.made => cycle.started = << >>

\* C37: the miners counter of the quarry is the number of its run futures
\* that have been spawned and have not ended
C37_MinersCountsRunningWorkers ==
    quarry.miners = Cardinality({w \in Workers : pc[w] \in {"spawned", "mining"}})

\* C38: the poll of a build returns Complete only when every layer
\* 0 .. height-1 has been built with success, so not while a layer is being
\* built; the layers are taken one at a time, each the lowest not yet built
C38_CompleteOnlyWhenEveryLayerBuilt ==
    /\ build.state = "Complete" =>
          build.built = 0 .. build.height - 1 /\ build.job.pc = "idle"
    /\ \A k \in DOMAIN build.handed :
          /\ build.handed[k] \in 0 .. build.height - 1
          /\ k > 1 => build.handed[k] \in {build.handed[k - 1], build.handed[k - 1] + 1}

\* C39: allocated() is true exactly when a next_chunk call made now would
\* return None, so it is false while index max-1 has not been handed out
C39_AllocatedIffNextChunkNone ==
    /\ allocated(task) <=> next_chunk(task).ret = None
    /\ task.max - 1 \notin issued => ~allocated(task)

\* C40: an update answered with Update because pending_update was set clears
\* the flag and nothing else: the stored fuel, position and queued movement,
\* the world, and the pending completion stay as they were; the completion of
\* the command in flight is delivered by a later update
C40_ReloadOnlyClearsFlag ==
    /\ [][turtle.pending_update /\ ~turtle'.pending_update =>
            /\ turtle'.fuel = turtle.fuel
            /\ turtle'.position = turtle.position
            /\ turtle'.queued_movement = turtle.queued_movement
            /\ turtle'.callback = turtle.callback
            /\ world' = world
            /\ delivered' = delivered
            /\ caller' = caller]_vars
    /\ \A k \in 1 .. MaxCalls : (turtle.callback = Some(k)) ~> (k \in delivered)

\* C40 happens: the update that followed updateAll was answered with Update
\* while the completion of a dispatched command was pending
C40_ReloadWithCommandInFlight ==
    /\ answer = Some(Command("Update", 0))
    /\ ~turtle.pending_update
    /\ turtle.callback /= None
    /\ dispatched /= << >>

====
